---- MODULE Spec2Model ----
(***************************************************************************)
(* State-machine model of vox-slicer: the host page (src/src/App.vue) and  *)
(* the transcription worker (src/unnamed/part_001, the module imported as  *)
(* ./workers/transcribe.worker).                                           *)
(*                                                                         *)
(* Times are integers in milliseconds; text is a sequence of one-character *)
(* strings, so that trim, join and toFixed are computed, not assumed.      *)
(***************************************************************************)
EXTENDS Integers, Sequences, FiniteSets, TLC

(* ------------------------------ bounds -------------------------------- *)

\* Most raw chunks the engine delivers to chunk_callback, all jobs together.
MaxChunks == 2
\* Raw chunks of the transcription the editing specification starts from.
MaxStoreChunks == 3
\* Most segments of the stores the auto-grouper specification starts from.
MaxAutoSegs == 7
\* Largest value typed into the auto-group number input.
MaxAutoValue == 13
\* Most file uploads started in one behaviour.
MaxUploads == 2
\* Most exports started in one behaviour.
MaxExports == 1

\* The transcribe messages posted to the worker on its own.
MaxWorkerJobs == 3
\* Longest audio posted to the worker on its own, in half seconds.
MaxHalfSeconds == 8
\* Largest chunkLength and strideLength posted to the worker on its own.
MaxChunkLength == 3
MaxStrideLength == 2
\* Longest buffer, in samples, posted to the worker for resampling.
MaxSamples == 4

(* --------------------------- arithmetic helpers ----------------------- *)

Min(a, b) == IF a < b THEN a ELSE b

Max(a, b) == IF a > b THEN a ELSE b

\* Math.ceil(a / b) for b > 0 (\div rounds toward minus infinity).
CeilDiv(a, b) == 0 - ((0 - a) \div b)

(* ------------------------- Number (IEEE-754 binary64) ------------------ *)

\* Every time of the program is a Number: the double nearest to the decimal
\* the model writes in milliseconds.  A Number is held as its sign and its
\* magnitude in units of 2^-66, the magnitude as base-2048 digits, least
\* significant first and without a leading zero digit; every double that
\* arises from times of at least a millisecond is a whole number of units.

RECURSIVE BigOf(_)
\* The digits of a natural number.
BigOf(n) == IF n = 0 THEN <<>> ELSE <<n % 2048>> \o BigOf(n \div 2048)

RECURSIVE IntOf(_)
IntOf(a) == IF a = <<>> THEN 0 ELSE Head(a) + 2048 * IntOf(Tail(a))

RECURSIVE BigNorm(_)
BigNorm(a) ==
  IF a # <<>> /\ a[Len(a)] = 0 THEN BigNorm(SubSeq(a, 1, Len(a) - 1)) ELSE a

RECURSIVE BigAdd(_, _, _)
BigAdd(a, b, carry) ==
  IF a = <<>> /\ b = <<>> THEN BigOf(carry)
  ELSE LET x == (IF a = <<>> THEN 0 ELSE Head(a))
                  + (IF b = <<>> THEN 0 ELSE Head(b)) + carry
       IN  <<x % 2048>> \o BigAdd(IF a = <<>> THEN a ELSE Tail(a),
                                  IF b = <<>> THEN b ELSE Tail(b),
                                  x \div 2048)

RECURSIVE BigSubDigits(_, _, _)
BigSubDigits(a, b, borrow) ==
  IF a = <<>> THEN <<>>
  ELSE LET x == Head(a) - (IF b = <<>> THEN 0 ELSE Head(b)) - borrow
       IN  <<x % 2048>> \o BigSubDigits(Tail(a),
                                        IF b = <<>> THEN b ELSE Tail(b),
                                        IF x < 0 THEN 1 ELSE 0)

\* a - b for a >= b.
BigSub(a, b) == BigNorm(BigSubDigits(a, b, 0))

RECURSIVE BigLess(_, _)
BigLess(a, b) ==
  IF Len(a) # Len(b) THEN Len(a) < Len(b)
  ELSE IF a = <<>> THEN FALSE
  ELSE IF a[Len(a)] # b[Len(b)] THEN a[Len(a)] < b[Len(b)]
  ELSE BigLess(SubSeq(a, 1, Len(a) - 1), SubSeq(b, 1, Len(b) - 1))

RECURSIVE BigTimesDigits(_, _, _)
BigTimesDigits(a, k, carry) ==
  IF a = <<>> THEN BigOf(carry)
  ELSE LET x == Head(a) * k + carry
       IN  <<x % 2048>> \o BigTimesDigits(Tail(a), k, x \div 2048)

\* a * k for a natural k below 2^20.
BigTimes(a, k) == BigNorm(BigTimesDigits(a, k, 0))

RECURSIVE BigDiv(_, _)
\* a divided by a natural k below 2^20: the quotient and the remainder.
BigDiv(a, k) ==
  IF a = <<>> THEN <<<<>>, 0>>
  ELSE LET hi == BigDiv(Tail(a), k)
           x == hi[2] * 2048 + Head(a)
       IN  << <<x \div k>> \o hi[1], x % k >>

RECURSIVE BigMod(_, _)
\* a modulo b, for a quotient that is small.
BigMod(a, b) == IF BigLess(a, b) THEN a ELSE BigMod(BigSub(a, b), b)

RECURSIVE BigQuot(_, _)
\* floor(a / b), for a quotient that is small.
BigQuot(a, b) == IF BigLess(a, b) THEN 0 ELSE 1 + BigQuot(BigSub(a, b), b)

\* a * 2^p.
BigShift(a, p) ==
  IF a = <<>> THEN a
  ELSE [i \in 1..(p \div 11) |-> 0] \o BigTimes(a, 2 ^ (p % 11))

RECURSIVE BitLen(_)
BitLen(n) == IF n = 0 THEN 0 ELSE 1 + BitLen(n \div 2)

BigBits(a) == IF a = <<>> THEN 0 ELSE 11 * (Len(a) - 1) + BitLen(a[Len(a)])

\* Round to nearest, ties to even, at 53 significant bits; inexact tells
\* that a nonzero part below the last digit has already been dropped.
RoundToDouble(a, inexact) ==
  LET d == BigBits(a) - 53
  IN  IF d <= 0 THEN a
      ELSE LET w == d \div 11
               r == d % 11
               hw == (d - 1) \div 11
               hr == (d - 1) % 11
               low == a[hw + 1] % (2 ^ (hr + 1))
               half == low \div (2 ^ hr) = 1
               below == \/ low % (2 ^ hr) # 0
                        \/ \E i \in 1..hw : a[i] # 0
                        \/ inexact
               odd == (a[w + 1] \div (2 ^ r)) % 2 = 1
               trunc == [i \in 1..Len(a) |->
                           IF i <= w THEN 0
                           ELSE IF i = w + 1 THEN a[i] - (a[i] % (2 ^ r))
                           ELSE a[i]]
               ulp == [i \in 1..(w + 1) |-> IF i = w + 1 THEN 2 ^ r ELSE 0]
           IN  IF half /\ (below \/ odd) THEN BigAdd(trunc, ulp, 0) ELSE trunc

Abs(n) == IF n < 0 THEN 0 - n ELSE n

NumberOf(neg, mag) == [neg |-> neg /\ mag # <<>>, mag |-> mag]

\* The Number of an integer.
NumberOfInt(n) ==
  NumberOf(n < 0, IF n = 0 THEN <<>> ELSE <<0, 0, 0, 0, 0, 0>> \o BigOf(Abs(n)))

\* The Number nearest to ms / 1000: what the engine's timestamps, the
\* buffer's duration and the number input hold for a decimal of at most
\* three places, given in thousandths.
NumberOfMilli(ms) ==
  IF ms = 0 THEN NumberOfInt(0)
  ELSE LET q == BigDiv(<<0, 0, 0, 0, 0, 0, 0>> \o BigOf(Abs(ms)), 1000)
       IN  NumberOf(ms < 0, Tail(RoundToDouble(BigNorm(q[1]), q[2] # 0)))

Negated(x) == NumberOf(~x.neg, x.mag)

\* x + y.
NumberAdd(x, y) ==
  IF x.neg = y.neg THEN NumberOf(x.neg, RoundToDouble(BigAdd(x.mag, y.mag, 0), FALSE))
  ELSE IF BigLess(x.mag, y.mag)
  THEN NumberOf(y.neg, RoundToDouble(BigSub(y.mag, x.mag), FALSE))
  ELSE NumberOf(x.neg, RoundToDouble(BigSub(x.mag, y.mag), FALSE))

\* x - y.
NumberSub(x, y) == NumberAdd(x, Negated(y))

\* x < y.
NumberLess(x, y) ==
  IF x.neg # y.neg THEN x.neg
  ELSE IF x.neg THEN BigLess(y.mag, x.mag)
  ELSE BigLess(x.mag, y.mag)

\* x * k for a natural k below 2^20.
NumberTimes(x, k) == NumberOf(x.neg, RoundToDouble(BigTimes(x.mag, k), FALSE))

\* Math.floor(x), as an integer.
NumberFloor(x) ==
  LET whole == IntOf(SubSeq(x.mag, 7, Len(x.mag)))
      part == \E i \in 1..Min(6, Len(x.mag)) : x.mag[i] # 0
  IN  IF x.neg THEN 0 - (whole + (IF part THEN 1 ELSE 0)) ELSE whole

\* x % y of two Numbers, x >= 0 and y > 0 (the result is exact).
NumberMod(x, y) == NumberOf(FALSE, BigMod(x.mag, y.mag))

\* Math.floor(n / y) for an integer n >= 0 and a Number y with 1 <= y <= n
\* or n = 0: the quotient n / y is rounded to a Number before the floor,
\* which lifts it to the next integer k when it lies within half the gap
\* below k.
FloorOfQuotient(n, y) ==
  LET a == NumberOfInt(n).mag
      whole == BigQuot(a, y.mag)
      short == BigSub(y.mag, BigMod(a, y.mag))
      k == whole + 1
      p == IF 2 ^ (BitLen(k) - 1) = k THEN 55 - BitLen(k) ELSE 54 - BitLen(k)
  IN  IF ~BigLess(y.mag, BigShift(short, p)) THEN k ELSE whole

(* ------------------------------- text --------------------------------- *)

DigitChars == <<"0", "1", "2", "3", "4", "5", "6", "7", "8", "9">>

RECURSIVE Digits(_)
\* Number.prototype.toString of a non-negative integer, as characters.
Digits(n) ==
  IF n < 10 THEN <<DigitChars[n + 1]>>
  ELSE Digits(n \div 10) \o <<DigitChars[(n % 10) + 1]>>

\* Number.prototype.toFixed(2) of the Number of ms milliseconds: the integer
\* n for which n / 100 is nearest to the Number itself, the larger one on a
\* tie, written with two decimals.
toFixed2(ms) ==
  LET x == NumberOfMilli(ms)
      h == BigTimesDigits(x.mag, 100, 0)
      n == IntOf(SubSeq(h, 7, Len(h)))
             + (IF Len(h) >= 6 /\ h[6] >= 1024 THEN 1 ELSE 0)
  IN  (IF x.neg THEN <<"-">> ELSE <<>>)
        \o Digits(n \div 100) \o <<".">>
        \o <<DigitChars[((n % 100) \div 10) + 1], DigitChars[(n % 10) + 1]>>

\* The code units String.prototype.trim strips (ECMAScript WhiteSpace and
\* LineTerminator) that a string of this module can hold: space, tab, line
\* feed, carriage return, form feed, vertical tab, no-break space, the byte
\* order mark and the ogham space mark.  The remaining members (U+2000 to
\* U+200A, U+2028, U+2029, U+202F, U+205F, U+3000) cannot be written in a
\* string of the module.
WhiteSpace ==
  {" ", "\t", "\n", "\r", "\f", "", " ", "﻿", " "}

RECURSIVE TrimLeft(_)
TrimLeft(s) ==
  IF Len(s) > 0 /\ Head(s) \in WhiteSpace THEN TrimLeft(Tail(s)) ELSE s

RECURSIVE TrimRight(_)
TrimRight(s) ==
  IF Len(s) > 0 /\ s[Len(s)] \in WhiteSpace
  THEN TrimRight(SubSeq(s, 1, Len(s) - 1))
  ELSE s

\* String.prototype.trim.
Trim(s) == TrimRight(TrimLeft(s))

RECURSIVE Join(_, _)
\* Array.prototype.join: the parts with sep between consecutive parts.
Join(parts, sep) ==
  IF Len(parts) = 0 THEN <<>>
  ELSE IF Len(parts) = 1 THEN parts[1]
  ELSE parts[1] \o sep \o Join(Tail(parts), sep)

(* -------------------------- program constants ------------------------- *)

TARGET_SAMPLE_RATE == 16000

CHUNK_LENGTH_S == 15

STRIDE_LENGTH_S == 5

(* ----------------------- recordings and the engine --------------------- *)

\* The audio files a user may upload.  A recording fixes what the decoder,
\* the recognition engine and its alignment decode return for it.
Recordings == {1, 2}

Letters == <<"a", "b", "c", "d", "e", "f", "g", "h">>

Letter(i) == Letters[((i - 1) % Len(Letters)) + 1]

\* AudioBuffer returned by decodeAudioData: recording 1 is 44.1 kHz stereo,
\* recording 2 is 16 kHz mono; rec = 0 stands for audioBuffer.value = null.
\* detached tells that the ArrayBuffer behind its channel data has been
\* transferred away.
NoBuffer ==
  [rec |-> 0, duration |-> 0, sampleRate |-> 0, numberOfChannels |-> 0,
   detached |-> FALSE]

DecodedBuffer(r) ==
  [rec |-> r,
   duration |-> 30000,
   sampleRate |-> IF r = 1 THEN 44100 ELSE TARGET_SAMPLE_RATE,
   numberOfChannels |-> IF r = 1 THEN 2 ELSE 1,
   detached |-> FALSE]

\* AudioBuffer.length: the sample frames of each channel.
BufferLength(buf) == (buf.duration * (buf.sampleRate \div 100)) \div 10

\* getChannelData(ch).length: a typed array over a detached ArrayBuffer has
\* length 0.
ChannelLength(buf) == IF buf.detached THEN 0 ELSE BufferLength(buf)

\* WorkerChunk { timestamp: [start, end], text }.  The end is <<e>>, or <<>>
\* when the engine omits it.  Recording 1 is contiguous speech whose text
\* carries a leading blank; recording 2 has pauses between its phrases, a
\* trailing blank, and an open end on the last phrase decoded so far.
TextChunk(r, i, isFinal) ==
  IF r = 1
  THEN [start |-> (i - 1) * 704, end |-> <<i * 704>>, text |-> <<" ", Letter(i)>>]
  ELSE [start |-> (i - 1) * 2506 + 250,
        end |-> IF isFinal THEN <<>> ELSE <<(i - 1) * 2506 + 2250>>,
        text |-> <<Letter(i), "!", " ">>]

\* tokenizer._decode_asr over the accumulated raw chunks of recording r: one
\* phrase per raw chunk, in order.
DecodeAsr(r, n) == [i \in 1..n |-> TextChunk(r, i, i = n)]

(* --------------------------- the segment store ------------------------- *)

\* A faulty replacement: the ids are the 0-based positions.
SegmentsFromChunksZeroBased(chunks, buf) ==
  [idx \in 1..Len(chunks) |->
     [id |-> idx - 1,
      start |-> chunks[idx].start,
      end |-> IF Len(chunks[idx].end) > 0 THEN chunks[idx].end[1] ELSE buf.duration,
      text |-> Trim(chunks[idx].text),
      selected |-> TRUE,
      linkNext |-> FALSE]]

\* A faulty replacement: an omitted end becomes 0, the value line 158 falls
\* back to without an audio buffer.
SegmentsFromChunksEndZero(chunks, buf) ==
  [idx \in 1..Len(chunks) |->
     [id |-> idx,
      start |-> chunks[idx].start,
      end |-> IF Len(chunks[idx].end) > 0 THEN chunks[idx].end[1] ELSE 0,
      text |-> Trim(chunks[idx].text),
      selected |-> TRUE,
      linkNext |-> FALSE]]

\* syncSegmentsFromChunks: the list the store is replaced by.
SegmentsFromChunks(chunks, buf) ==
  [idx \in 1..Len(chunks) |->
     [id |-> idx,
      start |-> chunks[idx].start,
      end |-> IF Len(chunks[idx].end) > 0 THEN chunks[idx].end[1] ELSE buf.duration,
      text |-> Trim(chunks[idx].text),
      selected |-> TRUE,
      linkNext |-> FALSE]]

\* The mutant of buildGroups' flush test that ignores linkNext = false.
FlushHereLastOnly(segs, idx, current) ==
  idx = Len(segs) /\ Len(current) > 0

\* buildGroups, the test of line 441 (idx is 1-based here).
FlushHere(segs, idx, current) ==
  (~segs[idx].linkNext \/ idx = Len(segs)) /\ Len(current) > 0

RECURSIVE BuildFrom(_, _, _, _)
\* buildGroups' forEach from position idx on, with the groups and the
\* current run built so far.
BuildFrom(segs, idx, groups, current) ==
  IF idx > Len(segs) THEN groups
  ELSE LET cur == IF segs[idx].selected THEN Append(current, segs[idx]) ELSE current
       IN  IF FlushHere(segs, idx, cur)
           THEN BuildFrom(segs, idx + 1, Append(groups, cur), <<>>)
           ELSE BuildFrom(segs, idx + 1, groups, cur)

buildGroups(segs) == BuildFrom(segs, 1, <<>>, <<>>)

\* groupCount (computed).
groupCountOf(segs) ==
  LET n == Cardinality({i \in 1..Len(segs) : ~segs[i].linkNext})
  IN  IF n # 0 THEN n ELSE IF Len(segs) # 0 THEN 1 ELSE 0

\* A faulty reset: the selection is restored but the links are kept.
ResetGroupingKeepLinks(segs) ==
  [i \in 1..Len(segs) |-> [segs[i] EXCEPT !.selected = TRUE]]

\* resetGroupingState, on the list.
ResetGrouping(segs) ==
  [i \in 1..Len(segs) |-> [segs[i] EXCEPT !.linkNext = FALSE, !.selected = TRUE]]

(* ----------------------------- auto-grouper ---------------------------- *)

AutoGroupModes == {"time", "count", "total"}

\* A faulty count rule: the boundary test uses the 0-based index itself.
CountLinksOffByOne(idx, val, n) ==
  NumberMod(NumberOfInt(idx), val).mag # <<>> /\ idx < n - 1

\* Count mode, line 358: whether the segment at 0-based idx of n is linked;
\* val is a Number.
CountLinks(idx, val, n) ==
  NumberMod(NumberOfInt(idx + 1), val).mag # <<>> /\ idx < n - 1

\* A faulty size rule: the remainder goes to the last groups.
GroupSizeTrailing(g, baseSize, remainder, targetGroups) ==
  IF ~NumberLess(NumberOfInt(g), NumberSub(targetGroups, remainder))
  THEN baseSize + 1 ELSE baseSize

\* Total mode, line 368: currentGroupSize of 0-based group g; remainder and
\* targetGroups are Numbers.
GroupSize(g, baseSize, remainder, targetGroups) ==
  IF NumberLess(NumberOfInt(g), remainder) THEN baseSize + 1 ELSE baseSize

RECURSIVE TotalInner(_, _, _, _)
\* Total mode, the inner loop of lines 369-374 from i on; yields the list,
\* the cursor and whether line 372 raised a TypeError: raw[cursor] is
\* undefined once the cursor has left the list.
TotalInner(raw, size, i, cursor) ==
  IF i >= size THEN <<raw, cursor, FALSE>>
  ELSE LET isLastSentence == cursor = Len(raw) - 1
           isLastInGroup == i = size - 1
       IN  IF ~isLastSentence /\ ~isLastInGroup
           THEN IF cursor >= Len(raw)
                THEN <<raw, cursor, TRUE>>
                ELSE TotalInner([raw EXCEPT ![cursor + 1].linkNext = TRUE],
                                size, i + 1, cursor + 1)
           ELSE TotalInner(raw, size, i + 1, cursor + 1)

RECURSIVE TotalOuter(_, _, _, _, _, _)
\* Total mode, the outer loop of lines 367-375 from group g on; yields the
\* list and whether the loop raised.
TotalOuter(raw, g, targetGroups, baseSize, remainder, cursor) ==
  IF ~NumberLess(NumberOfInt(g), targetGroups) THEN <<raw, FALSE>>
  ELSE LET r == TotalInner(raw, GroupSize(g, baseSize, remainder, targetGroups), 0, cursor)
       IN  IF r[3] THEN <<r[1], TRUE>>
           ELSE TotalOuter(r[1], g + 1, targetGroups, baseSize, remainder, r[2])

RECURSIVE TimeLoopInclusive(_, _, _, _)
\* A faulty time rule: a segment that brings the sum to exactly the limit is
\* still linked.
TimeLoopInclusive(raw, i, groupDuration, val) ==
  IF i >= Len(raw) - 1 THEN raw
  ELSE LET d == NumberAdd(groupDuration,
                          NumberSub(NumberOfMilli(raw[i + 1].end),
                                    NumberOfMilli(raw[i + 1].start)))
       IN  IF ~NumberLess(val, d)
           THEN TimeLoopInclusive([raw EXCEPT ![i + 1].linkNext = TRUE], i + 1, d, val)
           ELSE TimeLoopInclusive(raw, i + 1, NumberOfInt(0), val)

RECURSIVE TimeLoop(_, _, _, _)
\* Time mode, the loop of lines 378-386 from 0-based i on; groupDuration and
\* val are Numbers, the segment times are in milliseconds.
TimeLoop(raw, i, groupDuration, val) ==
  IF i >= Len(raw) - 1 THEN raw
  ELSE LET d == NumberAdd(groupDuration,
                          NumberSub(NumberOfMilli(raw[i + 1].end),
                                    NumberOfMilli(raw[i + 1].start)))
       IN  IF NumberLess(d, val)
           THEN TimeLoop([raw EXCEPT ![i + 1].linkNext = TRUE], i + 1, d, val)
           ELSE TimeLoop(raw, i + 1, NumberOfInt(0), val)

\* A faulty clamp: the least parameter is 2.
ClampValueToTwo(value) == Max(2000, value)

\* Line 353: val = Math.max(1, autoGroupValue.value), in thousandths.
ClampValue(value) == Max(1000, value)

\* applyAutoGroup on a non-empty list, in thousandths of the parameter: the
\* list it leaves and whether it raised before closing the modal.
AutoGroupRun(segs, mode, value) ==
  LET val == NumberOfMilli(ClampValue(value))
      raw == ResetGrouping(segs)
      n == Len(raw)
  IN  IF mode = "count"
      THEN <<[i \in 1..n |-> [raw[i] EXCEPT !.linkNext = CountLinks(i - 1, val, n)]],
             FALSE>>
      ELSE IF mode = "total"
      THEN LET totalSentences == NumberOfInt(n)
               targetGroups == IF NumberLess(val, totalSentences)
                               THEN val ELSE totalSentences
           IN  TotalOuter(raw, 0, targetGroups,
                          FloorOfQuotient(n, targetGroups),
                          NumberMod(totalSentences, targetGroups), 0)
      ELSE <<TimeLoop(raw, 0, NumberOfInt(0), val), FALSE>>

\* The list applyAutoGroup leaves.
AutoGrouped(segs, mode, value) == AutoGroupRun(segs, mode, value)[1]

\* Whether applyAutoGroup ends in the TypeError of line 372.
AutoGroupThrows(segs, mode, value) == AutoGroupRun(segs, mode, value)[2]

(* ------------------------------- export ------------------------------- *)

\* `${index + 1}-${startTime.toFixed(2)}-${endTime.toFixed(2)}.mp3`
FileNameOf(ordinal, startTime, endTime) ==
  Digits(ordinal) \o <<"-">> \o toFixed2(startTime) \o <<"-">> \o toFixed2(endTime)
    \o <<".", "m", "p", "3">>

\* Math.floor(time * sampleRate), time in milliseconds: the product is
\* rounded to a Number before the floor.
SampleIndex(time, sampleRate) ==
  NumberFloor(NumberTimes(NumberOfMilli(time), sampleRate))

\* TypedArray.prototype.subarray(begin, end) of an array of the given
\* length, as the half-open index range it views; a negative index counts
\* from the end.
Subarray(length, begin, end) ==
  LET b == IF begin < 0 THEN Max(length + begin, 0) ELSE Min(begin, length)
      e == IF end < 0 THEN Max(length + end, 0) ELSE Min(end, length)
  IN  [from |-> b, to |-> Max(b, e)]

\* What subarray raises on a typed array whose ArrayBuffer is detached.
TypeError == "TypeError"

\* Whether line 489 raises: the channel data read there was transferred
\* away.
SubarrayRaises(buf) == buf.detached /\ buf.numberOfChannels > 0

\* Lines 480-491: the samples handed to encodeMP3 for a group, the same
\* index range of every channel; on a detached buffer the subarray call of
\* line 489 raises instead.
GroupClip(group, buf) ==
  IF SubarrayRaises(buf) THEN TypeError
  ELSE [range |-> Subarray(ChannelLength(buf),
                           SampleIndex(group[1].start, buf.sampleRate),
                           SampleIndex(group[Len(group)].end, buf.sampleRate)),
        channels |-> buf.numberOfChannels,
        sampleRate |-> buf.sampleRate]

\* Line 482: group.map((g) => g.text).join(' ').
CombinedText(group) ==
  Join([i \in 1..Len(group) |-> group[i].text], <<" ">>)

GroupFileName(groups, i) ==
  FileNameOf(i, groups[i][1].start, groups[i][Len(groups[i])].end)

RECURSIVE FileNamesUpTo(_, _)
FileNamesUpTo(groups, n) ==
  IF n = 0 THEN <<>>
  ELSE Append(FileNamesUpTo(groups, n - 1), GroupFileName(groups, n))

\* Line 483: the fileName of every group, each computed once.
FileNames(groups) == FileNamesUpTo(groups, Len(groups))

\* A faulty archive: the audio folder receives every file under one name.
AudioFilesSameName(fileNames, groups, buf) ==
  IF Len(groups) = 0 THEN <<>>
  ELSE <<[name |-> fileNames[1], clip |-> GroupClip(groups[Len(groups)], buf)]>>

\* Lines 493-494: the audio folder of the archive, one entry per file name
\* in insertion order (names differ by their ordinal).
AudioFiles(fileNames, groups, buf) ==
  [i \in 1..Len(groups) |->
     [name |-> fileNames[i], clip |-> GroupClip(groups[i], buf)]]

\* Lines 495 and 499: transcription.txt.
Transcript(fileNames, groups) ==
  Join([i \in 1..Len(groups) |->
          fileNames[i] \o <<"\t">> \o CombinedText(groups[i])],
       <<"\n">>)

\* Lines 496 and 500: the data array embedded in player.html.
PlayerData(fileNames, groups) ==
  [i \in 1..Len(groups) |->
     [file |-> <<"a", "u", "d", "i", "o", "/">> \o fileNames[i],
      text |-> CombinedText(groups[i])]]

NoZip == [audio |-> <<>>, txt |-> <<>>, player |-> <<>>]

\* The archive generateAndDownload assembles from the groups.
BuildZip(groups, buf) ==
  LET fileNames == FileNames(groups)
  IN  [audio |-> AudioFiles(fileNames, groups, buf),
       txt |-> Transcript(fileNames, groups),
       player |-> PlayerData(fileNames, groups)]

(* ------------------------------- state -------------------------------- *)

VARIABLES
  \* host refs and module variables (App.vue lines 77-99)
  \* (times are held in thousandths of a second, autoGroupValue in
  \* thousandths of its unit)
  audioBuffer, segments, status, isLoading, isExporting, selectAll,
  showAutoGroupModal, autoGroupMode, autoGroupValue,
  activeJobId, processedChunks, totalChunks, isTranscribing,
  \* handleFileUpload invocations, and wasmPathPromise with its waiters
  uploads, wasmPath, wasmWaiters,
  \* generateAndDownload: position, the local groups, the archive built,
  \* the downloads triggered and the pending status-clearing timers
  exportPc, exGroups, zip, downloads, statusTimers,
  \* messages in flight: host -> worker, and worker -> host
  inbox, outbox,
  \* worker module variables, engine instances and onmessage invocations
  cachedConfig, transcriberPromise, engines, wjobs

hostVars == <<audioBuffer, segments, status, isLoading, isExporting, selectAll,
              showAutoGroupModal, autoGroupMode, autoGroupValue,
              activeJobId, processedChunks, totalChunks, isTranscribing>>

uploadVars == <<uploads, wasmPath, wasmWaiters>>

exportVars == <<exportPc, exGroups, zip, downloads, statusTimers>>

channelVars == <<inbox, outbox>>

workerVars == <<cachedConfig, transcriberPromise, engines, wjobs>>

vars == <<hostVars, uploadVars, exportVars, channelVars, workerVars>>

\* status.value: a message, with the counts the progress text shows.
StatusOf(msg) == [msg |-> msg, processed |-> 0, total |-> 0]

StatusProgress(processed, total) ==
  [msg |-> "analyzing", processed |-> processed, total |-> total]

(* --------------------------- host: onmessage --------------------------- *)

\* The guard of line 203 as a faulty variant: only ids from the future are
\* dropped.
IsStaleNewerOnly(m, active) == m.jobId > active

\* The guard of line 203 as a faulty variant that drops every message.
IsStaleAlways(m, active) == TRUE

\* Line 203: data.jobId !== activeJobId.
IsStale(m, active) == m.jobId # active

\* The list after an error message, as a faulty variant that clears it.
ErrorLeavesNothing(segs) == <<>>

\* Lines 230-235: the error branch assigns status, isLoading and
\* isTranscribing and nothing else; the segment list it leaves.
ErrorLeaves(segs) == segs

\* transcribeWorker.onmessage (lines 201-236) on message m.
OnMessage(m) ==
  IF IsStale(m, activeJobId)
  THEN UNCHANGED hostVars
  ELSE IF m.type = "progress"
  THEN /\ processedChunks' = m.processed
       /\ totalChunks' = m.total
       /\ status' = StatusProgress(m.processed, m.total)
       /\ UNCHANGED <<audioBuffer, segments, isLoading, isExporting, selectAll,
                      showAutoGroupModal, autoGroupMode, autoGroupValue,
                      activeJobId, isTranscribing>>
  ELSE IF m.type = "partial"
  THEN /\ processedChunks' = m.processed
       /\ totalChunks' = m.total
       /\ segments' = SegmentsFromChunks(m.chunks, audioBuffer)
       /\ selectAll' = TRUE
       /\ status' = StatusProgress(m.processed, m.total)
       /\ UNCHANGED <<audioBuffer, isLoading, isExporting,
                      showAutoGroupModal, autoGroupMode, autoGroupValue,
                      activeJobId, isTranscribing>>
  ELSE IF m.type = "done"
  THEN /\ segments' = SegmentsFromChunks(m.chunks, audioBuffer)
       /\ selectAll' = TRUE
       /\ status' = StatusOf("")
       /\ isLoading' = FALSE
       /\ isTranscribing' = FALSE
       /\ processedChunks' = Len(m.chunks)
       /\ totalChunks' = Len(m.chunks)
       /\ UNCHANGED <<audioBuffer, isExporting,
                      showAutoGroupModal, autoGroupMode, autoGroupValue, activeJobId>>
  ELSE IF m.type = "error"
  THEN /\ status' = StatusOf(IF m.message # "" THEN m.message ELSE "failed-retry-later")
       /\ isLoading' = FALSE
       /\ isTranscribing' = FALSE
       /\ segments' = ErrorLeaves(segments)
       /\ UNCHANGED <<audioBuffer, isExporting, selectAll,
                      showAutoGroupModal, autoGroupMode, autoGroupValue,
                      activeJobId, processedChunks, totalChunks>>
  ELSE UNCHANGED hostVars

\* The message event of the next message the worker posted.
HostReceive ==
  /\ Len(outbox) > 0
  /\ outbox' = Tail(outbox)
  /\ OnMessage(Head(outbox))
  /\ UNCHANGED <<inbox, uploadVars, exportVars, workerVars>>

(* --------------------------- host: user edits -------------------------- *)

\* toggleLink(index): the link button exists below every row but the last.
toggleLink(index) ==
  /\ index < Len(segments) - 1
  /\ segments' = [segments EXCEPT ![index + 1].linkNext = ~segments[index + 1].linkNext]
  /\ UNCHANGED <<audioBuffer, status, isLoading, isExporting, selectAll,
                 showAutoGroupModal, autoGroupMode, autoGroupValue,
                 activeJobId, processedChunks, totalChunks, isTranscribing>>
  /\ UNCHANGED <<uploadVars, exportVars, channelVars, workerVars>>

\* The row checkbox (line 608): v-model="seg.ref.selected".
toggleSelected(index) ==
  /\ segments' = [segments EXCEPT ![index + 1].selected = ~segments[index + 1].selected]
  /\ UNCHANGED <<audioBuffer, status, isLoading, isExporting, selectAll,
                 showAutoGroupModal, autoGroupMode, autoGroupValue,
                 activeJobId, processedChunks, totalChunks, isTranscribing>>
  /\ UNCHANGED <<uploadVars, exportVars, channelVars, workerVars>>

\* The select-all checkbox (lines 584-589): v-model flips selectAll, then
\* the change handler toggleSelectAll copies it to every segment.
toggleSelectAll ==
  /\ Len(segments) > 0
  /\ selectAll' = ~selectAll
  /\ segments' = [i \in 1..Len(segments) |-> [segments[i] EXCEPT !.selected = ~selectAll]]
  /\ UNCHANGED <<audioBuffer, status, isLoading, isExporting,
                 showAutoGroupModal, autoGroupMode, autoGroupValue,
                 activeJobId, processedChunks, totalChunks, isTranscribing>>
  /\ UNCHANGED <<uploadVars, exportVars, channelVars, workerVars>>

(* ------------------------ host: auto-group modal ----------------------- *)

\* Decimals with a fractional part typed into the number input, in
\* thousandths: below 1, between two group counts where the sizes of total
\* mode change (among them 1.2, which no Number equals), and above every
\* segment count.
AutoFractions ==
  {0 - 500, 500, 1001, 1200, 1375, 1500, 1750, 2001, 2375, 2500, 3001, 7500}

\* The values the number input may hold (v-model.number delivers whatever
\* decimal is typed; min and step are not enforced), in thousandths: the
\* whole numbers from -1 to MaxAutoValue and the decimals of AutoFractions.
\* On the stores of at most MaxAutoSegs segments every other decimal of at
\* most three places leaves the same links, and raises or not, as one of
\* these in every mode.
AutoValues == {1000 * k : k \in (0 - 1)..MaxAutoValue} \cup AutoFractions

\* openAutoGroupModal; its button is rendered while segments.length > 0.
openAutoGroupModal ==
  /\ Len(segments) > 0
  /\ autoGroupValue' =
       IF autoGroupMode = "total"
       THEN Min(IF autoGroupValue # 0 THEN autoGroupValue ELSE 1000,
                1000 * Len(segments))
       ELSE autoGroupValue
  /\ showAutoGroupModal' = TRUE
  /\ UNCHANGED <<audioBuffer, segments, status, isLoading, isExporting, selectAll,
                 autoGroupMode, activeJobId, processedChunks, totalChunks,
                 isTranscribing>>
  /\ UNCHANGED <<uploadVars, exportVars, channelVars, workerVars>>

\* The mode radios of the modal (lines 661-681).
setAutoGroupMode(mode) ==
  /\ showAutoGroupModal
  /\ autoGroupMode # mode
  /\ autoGroupMode' = mode
  /\ UNCHANGED <<audioBuffer, segments, status, isLoading, isExporting, selectAll,
                 showAutoGroupModal, autoGroupValue, activeJobId, processedChunks,
                 totalChunks, isTranscribing>>
  /\ UNCHANGED <<uploadVars, exportVars, channelVars, workerVars>>

\* The number input of the modal (line 692).
setAutoGroupValue(value) ==
  /\ showAutoGroupModal
  /\ autoGroupValue # value
  /\ autoGroupValue' = value
  /\ UNCHANGED <<audioBuffer, segments, status, isLoading, isExporting, selectAll,
                 showAutoGroupModal, autoGroupMode, activeJobId, processedChunks,
                 totalChunks, isTranscribing>>
  /\ UNCHANGED <<uploadVars, exportVars, channelVars, workerVars>>

\* The cancel button of the modal (line 705).
cancelAutoGroup ==
  /\ showAutoGroupModal
  /\ showAutoGroupModal' = FALSE
  /\ UNCHANGED <<audioBuffer, segments, status, isLoading, isExporting, selectAll,
                 autoGroupMode, autoGroupValue, activeJobId, processedChunks,
                 totalChunks, isTranscribing>>
  /\ UNCHANGED <<uploadVars, exportVars, channelVars, workerVars>>

\* applyAutoGroup (lines 350-390), the confirm button of the modal.  When
\* line 372 raises, the handler ends there: the flags reset and the links set
\* so far stay, and the modal stays open.
applyAutoGroup ==
  /\ showAutoGroupModal
  /\ UNCHANGED <<audioBuffer, status, isLoading, isExporting,
                 autoGroupMode, autoGroupValue, activeJobId, processedChunks,
                 totalChunks, isTranscribing>>
  /\ UNCHANGED <<uploadVars, exportVars, channelVars, workerVars>>
  /\ IF Len(segments) = 0
     THEN UNCHANGED <<segments, selectAll, showAutoGroupModal>>
     ELSE LET run == AutoGroupRun(segments, autoGroupMode, autoGroupValue)
          IN  /\ segments' = run[1]
              /\ selectAll' = TRUE
              /\ showAutoGroupModal' = run[2]

(* ---------------------------- host: export ----------------------------- *)

\* The export button: rendered while segments.length > 0, disabled while
\* isExporting.
ExportEnabled ==
  /\ Len(segments) > 0
  /\ ~isExporting
  /\ downloads < MaxExports

\* The messages of the errors encodeMP3 and zip.generateAsync may throw.
CodecErrors == {"encoder-failed", "archive-failed"}

\* Lines 510-512: the status the catch block shows for the error caught;
\* the error itself goes to console.error only.
ExportFailureText(err) == "export-failed"

\* The downloads after a failed export: the catch block triggers none.
FailedExportDownloads(n) == n

\* isExporting when the handler ends, as a faulty variant without the
\* finally block: the flag set on line 468 stays.
ExportingAfterStuck == TRUE

\* isExporting after the finally block (line 514).
ExportingAfter == FALSE

\* Whether the forEach of lines 478-497 raises on its first group: the
\* channel data was transferred away and a group is there to cut.
ClipRaises(groups, buf) == Len(groups) > 0 /\ SubarrayRaises(buf)

\* generateAndDownload up to its await (lines 462-502), every group encoded;
\* when subarray raises, the catch and finally blocks run in the same turn
\* and generateAsync is never called.
ExportStart ==
  /\ ExportEnabled
  /\ IF audioBuffer = NoBuffer
     THEN /\ status' = StatusOf("upload-first")
          /\ UNCHANGED <<isExporting, exportPc, exGroups, zip, downloads>>
     ELSE IF ClipRaises(buildGroups(segments), audioBuffer)
     THEN /\ status' = StatusOf(ExportFailureText(TypeError))
          /\ isExporting' = ExportingAfter
          /\ exportPc' = "failed"
          /\ exGroups' = <<>>
          /\ zip' = NoZip
          /\ downloads' = FailedExportDownloads(downloads)
     ELSE /\ isExporting' = TRUE
          /\ status' = StatusOf("exporting")
          /\ exGroups' = buildGroups(segments)
          /\ zip' = BuildZip(buildGroups(segments), audioBuffer)
          /\ exportPc' = "generating"
          /\ UNCHANGED downloads
  /\ UNCHANGED <<audioBuffer, segments, isLoading, selectAll,
                 showAutoGroupModal, autoGroupMode, autoGroupValue,
                 activeJobId, processedChunks, totalChunks, isTranscribing>>
  /\ UNCHANGED <<statusTimers, uploadVars, channelVars, workerVars>>

\* generateAndDownload when encodeMP3 throws for some group: the catch and
\* finally blocks run in the same turn of the event loop.
ExportEncodeFail ==
  /\ ExportEnabled
  /\ audioBuffer # NoBuffer
  /\ Len(buildGroups(segments)) > 0
  /\ ~ClipRaises(buildGroups(segments), audioBuffer)
  /\ \E err \in CodecErrors : status' = StatusOf(ExportFailureText(err))
  /\ isExporting' = ExportingAfter
  /\ exportPc' = "failed"
  /\ exGroups' = <<>>
  /\ zip' = NoZip
  /\ downloads' = FailedExportDownloads(downloads)
  /\ UNCHANGED <<audioBuffer, segments, isLoading, selectAll,
                 showAutoGroupModal, autoGroupMode, autoGroupValue,
                 activeJobId, processedChunks, totalChunks, isTranscribing>>
  /\ UNCHANGED <<statusTimers, uploadVars, channelVars, workerVars>>

\* The archive the download link points at, as a faulty variant: the
\* transcript is rebuilt from the store as it is when generateAsync resolves.
DownloadedLateTranscript(z) ==
  [z EXCEPT !.txt = Transcript(FileNames(buildGroups(segments)), buildGroups(segments))]

\* The archive the download link points at (lines 502-506): the one built
\* before the await.
Downloaded(z) == z

\* zip.generateAsync resolved (lines 502-509).
ExportFinishOk ==
  /\ exportPc = "generating"
  /\ zip' = Downloaded(zip)
  /\ downloads' = downloads + 1
  /\ status' = StatusOf("export-ok")
  /\ statusTimers' = statusTimers + 1
  /\ isExporting' = ExportingAfter
  /\ exportPc' = "done"
  /\ UNCHANGED <<audioBuffer, segments, isLoading, selectAll,
                 showAutoGroupModal, autoGroupMode, autoGroupValue,
                 activeJobId, processedChunks, totalChunks, isTranscribing>>
  /\ UNCHANGED <<exGroups, uploadVars, channelVars, workerVars>>

\* zip.generateAsync rejected (lines 510-515).
ExportArchiveFail ==
  /\ exportPc = "generating"
  /\ \E err \in CodecErrors : status' = StatusOf(ExportFailureText(err))
  /\ isExporting' = ExportingAfter
  /\ exportPc' = "failed"
  /\ exGroups' = <<>>
  /\ zip' = NoZip
  /\ downloads' = FailedExportDownloads(downloads)
  /\ UNCHANGED <<audioBuffer, segments, isLoading, selectAll,
                 showAutoGroupModal, autoGroupMode, autoGroupValue,
                 activeJobId, processedChunks, totalChunks, isTranscribing>>
  /\ UNCHANGED <<statusTimers, uploadVars, channelVars, workerVars>>

\* The timer of line 509 fires.
StatusTimeout ==
  /\ statusTimers > 0
  /\ statusTimers' = statusTimers - 1
  /\ status' = StatusOf("")
  /\ UNCHANGED <<audioBuffer, segments, isLoading, isExporting, selectAll,
                 showAutoGroupModal, autoGroupMode, autoGroupValue,
                 activeJobId, processedChunks, totalChunks, isTranscribing>>
  /\ UNCHANGED <<exportPc, exGroups, zip, downloads, uploadVars, channelVars, workerVars>>

(* ---------------------------- host: upload ----------------------------- *)

Uploads == 1..MaxUploads

\* wasmBases (lines 44-56), in the order pickWasmPath probes them away from
\* localhost; on localhost the self-hosted path comes first.
wasmBases ==
  <<"https://cdn.jsdelivr.net/npm/onnxruntime-web/dist/",
    "https://unpkg.com/onnxruntime-web/dist/",
    "https://cdn.bootcdn.net/ajax/libs/onnxruntime-web/1.14.0/",
    "models/onnx-runtime/">>

\* pickWasmPath's result once wasmPathPromise has resolved (lines 58-73):
\* the self-hosted path at once when it comes first, else the first CDN base
\* whose HEAD probe answers ok, else the self-hosted path.
WasmPaths == {wasmBases[i] : i \in 1..Len(wasmBases)}

\* window.location.href.
PageUrl == "https://vox-slicer.example/"

\* base.startsWith('http'), for the bases of wasmBases.
StartsWithHttp(path) == path # "models/onnx-runtime/"

\* Lines 284-287: the path as posted, a relative one resolved against the
\* page.
ResolvedWasmPath(path) == IF StartsWithHttp(path) THEN path ELSE PageUrl \o path

\* The payload fields the worker reads as its WorkerConfig (lines 300-303
\* of App.vue); allowLocalModels and allowRemoteModels are not posted.
ConfigOf(path) ==
  [wasmPath |-> ResolvedWasmPath(path),
   allowLocalModels |-> "undefined",
   allowRemoteModels |-> "undefined",
   useBrowserCache |-> TRUE,
   localModelPath |-> PageUrl \o "models/"]

\* Math.round of the quotient a / b, for a >= 0 and b > 0.
RoundDiv(a, b) == (2 * a + b) \div (2 * b)

\* What a Float32Array holds after undefined took part in the arithmetic.
NaN == "NaN"

\* The length of the output of resampleToRate past its first line.
ResampledLength(inputLength, sourceRate, targetRate) ==
  Max(1, RoundDiv(inputLength * targetRate, sourceRate))

\* index of output position i: floor(i / ratio).
ReadIndex(i, sourceRate, targetRate) == (i * sourceRate) \div targetRate

\* next as a faulty variant without the clamp to the last input index.
ReadNextUnclamped(i, inputLength, sourceRate, targetRate) ==
  ReadIndex(i, sourceRate, targetRate) + 1

\* next of output position i: min(index + 1, input.length - 1).
ReadNext(i, inputLength, sourceRate, targetRate) ==
  Min(ReadIndex(i, sourceRate, targetRate) + 1, inputLength - 1)

\* resampleToRate of App.vue (lines 183-196) and of the worker (part_001
\* lines 45-58), the same code.  Samples are integers in units of
\* 1 / targetRate of the amplitude range and a multiple of targetRate each,
\* which makes input[index] * (1 - weight) + input[next] * weight exact:
\* weight is ((i * sourceRate) % targetRate) / targetRate.  A read outside
\* the input is undefined and makes the output sample NaN.
resampleToRate(input, sourceRate, targetRate) ==
  IF sourceRate = targetRate THEN input
  ELSE [k \in 1..ResampledLength(Len(input), sourceRate, targetRate) |->
          LET index == ReadIndex(k - 1, sourceRate, targetRate)
              next == ReadNext(k - 1, Len(input), sourceRate, targetRate)
              weight == ((k - 1) * sourceRate) % targetRate
          IN  IF index \in 0..(Len(input) - 1) /\ next \in 0..(Len(input) - 1)
              THEN (input[index + 1] * (targetRate - weight) + input[next + 1] * weight)
                     \div targetRate
              ELSE NaN]

\* The host resamples every upload to TARGET_SAMPLE_RATE, which is also the
\* engine's sampling_rate: the samples the worker receives for recording r.
WorkerSampleCount(r) ==
  Max(1, (DecodedBuffer(r).duration * (TARGET_SAMPLE_RATE \div 100)) \div 10)

\* The payload fields the worker's estimate reads (lines 295-298): the
\* length of the audio, its rate, chunkLength and strideLength.  The sample
\* values of a recording are not listed, rec stands for them; samples holds
\* the values of the short buffers posted to the worker on its own.
PagePayload(rec) ==
  [samples |-> <<>>, sampleCount |-> WorkerSampleCount(rec),
   sampleRate |-> TARGET_SAMPLE_RATE,
   chunkLength |-> CHUNK_LENGTH_S, strideLength |-> STRIDE_LENGTH_S]

\* The transcribe message of lines 290-307; rec stands for the audio.
TranscribeMsg(jobId, rec, path) ==
  [type |-> "transcribe", jobId |-> jobId, rec |-> rec, config |-> ConfigOf(path),
   payload |-> PagePayload(rec)]

\* The file the user picks for the u-th upload: the two recordings in turn,
\* recording 2 first.
FileOf(u) == 2 - ((u - 1) % 2)

\* The id a submission takes, as a faulty variant that reuses the current
\* id.
NextJobIdReused(active) == Max(active, 1)

\* Line 276: activeJobId += 1.
NextJobId(active) == active + 1

\* handleFileUpload up to its first await (lines 252-266).  The file input
\* is rendered while audioBuffer is null.
UploadStart(u, r) ==
  /\ uploads[u].pc = "idle"
  /\ \A v \in Uploads : v < u => uploads[v].pc # "idle"
  /\ audioBuffer = NoBuffer
  /\ uploads' = [uploads EXCEPT ![u] = [pc |-> "decoding", rec |-> r, jobId |-> 0]]
  /\ status' = StatusOf("decoding")
  /\ isLoading' = TRUE
  /\ isTranscribing' = FALSE
  /\ segments' = <<>>
  /\ processedChunks' = 0
  /\ totalChunks' = 0
  /\ UNCHANGED <<audioBuffer, isExporting, selectAll, showAutoGroupModal,
                 autoGroupMode, autoGroupValue, activeJobId>>
  /\ UNCHANGED <<wasmPath, wasmWaiters, exportVars, channelVars, workerVars>>

\* isLoading when a failed upload ends, as a faulty variant in which the
\* flag set on line 258 stays.
LoadingAfterFailureStuck == TRUE

\* isLoading after the catch and finally blocks (lines 312-316).
LoadingAfterFailure == FALSE

\* file.arrayBuffer or decodeAudioData rejects: the catch and finally
\* blocks (lines 308-317).
DecodeFail(u) ==
  /\ uploads[u].pc = "decoding"
  /\ uploads' = [uploads EXCEPT ![u].pc = "finished"]
  /\ status' = StatusOf("upload-failed")
  /\ isTranscribing' = FALSE
  /\ isLoading' = LoadingAfterFailure
  /\ UNCHANGED <<audioBuffer, segments, isExporting, selectAll, showAutoGroupModal,
                 autoGroupMode, autoGroupValue, activeJobId, processedChunks,
                 totalChunks>>
  /\ UNCHANGED <<wasmPath, wasmWaiters, exportVars, channelVars, workerVars>>

\* transcribeWorker is still null: line 200 assigns it, and line 276 follows
\* in the same turn every call of attachWorker that returned it.
WorkerMissing == activeJobId = 0

\* decodeAudioData resolves and new TranscribeWorker() throws (line 200):
\* attachWorker rejects, and the catch and finally blocks run with the
\* decoded buffer stored (line 267) and activeJobId as it was.
AttachFail(u) ==
  /\ uploads[u].pc = "decoding"
  /\ WorkerMissing
  /\ audioBuffer' = DecodedBuffer(uploads[u].rec)
  /\ uploads' = [uploads EXCEPT ![u].pc = "finished"]
  /\ status' = StatusOf("upload-failed")
  /\ isTranscribing' = FALSE
  /\ isLoading' = LoadingAfterFailure
  /\ UNCHANGED <<segments, isExporting, selectAll, showAutoGroupModal,
                 autoGroupMode, autoGroupValue, activeJobId, processedChunks,
                 totalChunks>>
  /\ UNCHANGED <<wasmPath, wasmWaiters, exportVars, channelVars, workerVars>>

\* decodeAudioData resolves with wasmPathPromise already resolved, and
\* worker.postMessage throws (line 290): lines 267-283 have run, nothing is
\* posted or transferred, and the catch and finally blocks follow.
PostFail(u) ==
  /\ uploads[u].pc = "decoding"
  /\ wasmPath # "pending"
  /\ audioBuffer' = DecodedBuffer(uploads[u].rec)
  /\ activeJobId' = NextJobId(activeJobId)
  /\ processedChunks' = 0
  /\ totalChunks' = 0
  /\ uploads' = [uploads EXCEPT ![u].pc = "finished",
                                ![u].jobId = NextJobId(activeJobId)]
  /\ status' = StatusOf("upload-failed")
  /\ isTranscribing' = FALSE
  /\ isLoading' = LoadingAfterFailure
  /\ UNCHANGED <<segments, isExporting, selectAll, showAutoGroupModal,
                 autoGroupMode, autoGroupValue>>
  /\ UNCHANGED <<wasmPath, wasmWaiters, exportVars, channelVars, workerVars>>

\* Lines 269-270 and 294: mixToMono returns getChannelData(0) itself for a
\* buffer of one channel, resampleToRate returns its input at the target
\* rate, and resampled.buffer is then the ArrayBuffer of the decoded
\* buffer's channel data.
TransfersChannelData(buf) ==
  /\ buf.numberOfChannels = 1
  /\ buf.sampleRate = TARGET_SAMPLE_RATE

\* The decoded buffer after postMessage(..., [resampled.buffer]) (line 306).
\* Transferring the ArrayBuffer of its channel data detaches it where
\* getChannelData hands out the buffer's own storage, and leaves the buffer
\* alone where it hands out a copy; Web Audio allows either.
AfterTransfer(buf) ==
  IF TransfersChannelData(buf) THEN {buf, [buf EXCEPT !.detached = TRUE]}
  ELSE {buf}

\* decodeAudioData resolves: lines 267-283, and lines 284-317 in the same
\* turn when wasmPathPromise has already resolved.
DecodeOk(u) ==
  /\ uploads[u].pc = "decoding"
  /\ audioBuffer' \in IF wasmPath = "pending"
                      THEN {DecodedBuffer(uploads[u].rec)}
                      ELSE AfterTransfer(DecodedBuffer(uploads[u].rec))
  /\ activeJobId' = NextJobId(activeJobId)
  /\ processedChunks' = 0
  /\ totalChunks' = 0
  /\ isTranscribing' = TRUE
  /\ status' = StatusOf("analyzing")
  /\ IF wasmPath = "pending"
     THEN /\ uploads' = [uploads EXCEPT ![u].pc = "waitWasm",
                                        ![u].jobId = NextJobId(activeJobId)]
          /\ wasmWaiters' = Append(wasmWaiters, u)
          /\ UNCHANGED inbox
     ELSE /\ uploads' = [uploads EXCEPT ![u].pc = "finished",
                                        ![u].jobId = NextJobId(activeJobId)]
          /\ inbox' = Append(inbox,
                             TranscribeMsg(NextJobId(activeJobId), uploads[u].rec, wasmPath))
          /\ UNCHANGED wasmWaiters
  /\ UNCHANGED <<segments, isLoading, isExporting, selectAll, showAutoGroupModal,
                 autoGroupMode, autoGroupValue>>
  /\ UNCHANGED <<wasmPath, outbox, exportVars, workerVars>>

RECURSIVE PostedBy(_, _, _, _)
\* The transcribe messages of the first n waiting uploads, in order, those
\* whose postMessage throws left out.
PostedBy(waiters, failing, path, n) ==
  IF n = 0 THEN <<>>
  ELSE LET before == PostedBy(waiters, failing, path, n - 1)
       IN  IF n \in failing THEN before
           ELSE Append(before, TranscribeMsg(uploads[waiters[n]].jobId,
                                             uploads[waiters[n]].rec, path))

\* wasmPathPromise resolves with path: every upload awaiting it resumes, in
\* the order they began to wait, posts its message (lines 284-307) and runs
\* its finally block (lines 313-317); for the waiters in failing,
\* postMessage throws and the catch block (lines 308-312) runs instead.  The
\* buffer held in audioBuffer is the one of the upload that took
\* activeJobId.
WasmResolve(path, failing) ==
  /\ wasmPath = "pending"
  /\ wasmPath' = path
  /\ inbox' = inbox \o PostedBy(wasmWaiters, failing, path, Len(wasmWaiters))
  /\ uploads' = [u \in Uploads |->
                   IF uploads[u].pc = "waitWasm"
                   THEN [uploads[u] EXCEPT !.pc = "finished"]
                   ELSE uploads[u]]
  /\ wasmWaiters' = <<>>
  /\ status' = IF failing # {} THEN StatusOf("upload-failed") ELSE status
  /\ isTranscribing' = IF failing # {} THEN FALSE ELSE isTranscribing
  /\ isLoading' = IF failing # {} THEN LoadingAfterFailure
                  ELSE IF Len(wasmWaiters) > 0 /\ ~isTranscribing THEN FALSE
                  ELSE isLoading
  /\ audioBuffer' \in IF \E i \in 1..Len(wasmWaiters) :
                           /\ i \notin failing
                           /\ uploads[wasmWaiters[i]].jobId = activeJobId
                      THEN AfterTransfer(audioBuffer)
                      ELSE {audioBuffer}
  /\ UNCHANGED <<segments, isExporting, selectAll,
                 showAutoGroupModal, autoGroupMode, autoGroupValue,
                 activeJobId, processedChunks, totalChunks>>
  /\ UNCHANGED <<outbox, exportVars, workerVars>>

(* ------------------------------- worker ------------------------------- *)

\* cachedConfig = null.
NoConfig ==
  [wasmPath |-> "none", allowLocalModels |-> "none", allowRemoteModels |-> "none",
   useBrowserCache |-> FALSE, localModelPath |-> "none"]

\* The estimate without the test of line 66, as a faulty variant.
estimateChunkTotalNoShortTest(sampleCount, sampleRate, chunkLength, strideLength) ==
  LET window == sampleRate * chunkLength
      stride == sampleRate * strideLength
      jump == window - 2 * stride
  IN  IF chunkLength <= 0 THEN 1
      ELSE IF window <= 0 THEN 1
      ELSE IF jump <= 0 THEN CeilDiv(sampleCount, window)
      ELSE Max(1, CeilDiv(sampleCount - window, jump) + 1)

\* estimateChunkTotal (part_001 lines 60-71).
estimateChunkTotal(sampleCount, sampleRate, chunkLength, strideLength) ==
  LET window == sampleRate * chunkLength
      stride == sampleRate * strideLength
      jump == window - 2 * stride
  IN  IF chunkLength <= 0 THEN 1
      ELSE IF window <= 0 THEN 1
      ELSE IF sampleCount <= window THEN 1
      ELSE IF jump <= 0 THEN CeilDiv(sampleCount, window)
      ELSE Max(1, CeilDiv(sampleCount - window, jump) + 1)

\* feature_extractor.config.sampling_rate of the model the worker loads:
\* the rate the page resamples to.
EngineSamplingRate == TARGET_SAMPLE_RATE

\* audio of lines 106-107: the samples as posted when they are at the
\* engine's rate, resampled otherwise.
WorkerAudio(payload) ==
  IF payload.sampleRate = EngineSamplingRate
  THEN [samples |-> payload.samples, sampleCount |-> payload.sampleCount]
  ELSE [samples |-> resampleToRate(payload.samples, payload.sampleRate,
                                   EngineSamplingRate),
        sampleCount |-> Len(resampleToRate(payload.samples, payload.sampleRate,
                                           EngineSamplingRate))]

\* totalChunks of a job (lines 104-109).
JobTotal(payload) ==
  estimateChunkTotal(WorkerAudio(payload).sampleCount, EngineSamplingRate,
                     payload.chunkLength, payload.strideLength)

\* totalChunks of a job (line 109), with CHUNK_LENGTH_S and STRIDE_LENGTH_S.
TotalFor(r) ==
  estimateChunkTotal(WorkerSampleCount(r), TARGET_SAMPLE_RATE, CHUNK_LENGTH_S,
                     STRIDE_LENGTH_S)

\* A faulty refresh test: only the runtime path is compared.
needsRefreshPathOnly(config) ==
  \/ cachedConfig = NoConfig
  \/ cachedConfig.wasmPath # config.wasmPath

\* ensureTranscriber, lines 74-80.
needsRefresh(config) ==
  \/ cachedConfig = NoConfig
  \/ cachedConfig.wasmPath # config.wasmPath
  \/ cachedConfig.allowLocalModels # config.allowLocalModels
  \/ cachedConfig.allowRemoteModels # config.allowRemoteModels
  \/ cachedConfig.useBrowserCache # config.useBrowserCache
  \/ cachedConfig.localModelPath # config.localModelPath

\* A faulty partial message: it carries the newest phrase only, not the
\* phrases of all the chunks accumulated.
PartialMsgDeltaOnly(jobId, processed, total, chunks) ==
  [type |-> "partial", jobId |-> jobId, processed |-> processed, total |-> total,
   chunks |-> <<chunks[Len(chunks)]>>, message |-> ""]

\* WorkerResponse values; fields a type does not carry are left empty.
PartialMsg(jobId, processed, total, chunks) ==
  [type |-> "partial", jobId |-> jobId, processed |-> processed, total |-> total,
   chunks |-> chunks, message |-> ""]

DoneMsg(jobId, chunks) ==
  [type |-> "done", jobId |-> jobId, processed |-> 0, total |-> 0,
   chunks |-> chunks, message |-> ""]

ErrorMsg(jobId, message) ==
  [type |-> "error", jobId |-> jobId, processed |-> 0, total |-> 0,
   chunks |-> <<>>, message |-> message]

\* What a job posts when its engine call returns, as a faulty variant that
\* reports completion and then a failure.
ReturnPostsDoneThenError(job) ==
  <<DoneMsg(job.jobId, DecodeAsr(job.rec, job.processed)), ErrorMsg(job.jobId, "engine-run-failed")>>

\* Lines 151-156: the done message carrying result.chunks.
ReturnPosts(job) == <<DoneMsg(job.jobId, DecodeAsr(job.rec, job.processed))>>

\* A job of the worker after ensureTranscriber, awaiting engine instance e.
NewJob(m, e) ==
  [jobId |-> m.jobId, rec |-> m.rec, config |-> m.config, payload |-> m.payload,
   audio |-> [samples |-> <<>>, sampleCount |-> 0], pc |-> "loading",
   engine |-> e, processed |-> 0, total |-> 0, posted |-> <<>>]

\* Lines 104-127: the engine is loaded, the job computes its estimate and
\* calls it.
Started(job) ==
  [job EXCEPT !.pc = "running", !.audio = WorkerAudio(job.payload),
              !.total = JobTotal(job.payload)]

\* Lines 157-164: the catch block.
Failed(job) ==
  [job EXCEPT !.pc = "finished", !.posted = Append(job.posted, "error")]

\* ctx.onmessage up to its first await (lines 96-103), and on when the
\* engine's promise has already settled.
WorkerReceive ==
  /\ Len(inbox) > 0
  /\ LET m == Head(inbox)
         fresh == transcriberPromise = 0 \/ needsRefresh(m.config)
         e == IF fresh THEN Len(engines) + 1 ELSE transcriberPromise
         state == IF fresh THEN "loading" ELSE engines[e]
         job == NewJob(m, e)
     IN  /\ inbox' = Tail(inbox)
         /\ engines' = IF fresh THEN Append(engines, "loading") ELSE engines
         /\ transcriberPromise' = e
         /\ cachedConfig' = IF fresh THEN m.config ELSE cachedConfig
         /\ IF state = "ready"
            THEN /\ wjobs' = Append(wjobs, Started(job))
                 /\ UNCHANGED outbox
            ELSE IF state = "failed"
            THEN /\ wjobs' = Append(wjobs, Failed(job))
                 /\ outbox' = Append(outbox, ErrorMsg(job.jobId, "engine-load-failed"))
            ELSE /\ wjobs' = Append(wjobs, job)
                 /\ UNCHANGED outbox
  /\ UNCHANGED <<hostVars, uploadVars, exportVars>>

Waiting(e) == {j \in 1..Len(wjobs) : wjobs[j].pc = "loading" /\ wjobs[j].engine = e}

\* pipeline() of engine instance e resolves: the jobs awaiting it resume.
EngineLoaded(e) ==
  /\ engines[e] = "loading"
  /\ engines' = [engines EXCEPT ![e] = "ready"]
  /\ wjobs' = [j \in 1..Len(wjobs) |->
                 IF j \in Waiting(e) THEN Started(wjobs[j]) ELSE wjobs[j]]
  /\ UNCHANGED <<cachedConfig, transcriberPromise, inbox, outbox>>
  /\ UNCHANGED <<hostVars, uploadVars, exportVars>>

RECURSIVE LoadErrors(_, _)
\* The error messages of the jobs awaiting e, in the order they began to.
LoadErrors(e, j) ==
  IF j > Len(wjobs) THEN <<>>
  ELSE IF j \in Waiting(e)
  THEN <<ErrorMsg(wjobs[j].jobId, "engine-load-failed")>> \o LoadErrors(e, j + 1)
  ELSE LoadErrors(e, j + 1)

\* pipeline() of engine instance e rejects: every job awaiting it fails.
EngineLoadFailed(e) ==
  /\ engines[e] = "loading"
  /\ engines' = [engines EXCEPT ![e] = "failed"]
  /\ wjobs' = [j \in 1..Len(wjobs) |->
                 IF j \in Waiting(e) THEN Failed(wjobs[j]) ELSE wjobs[j]]
  /\ outbox' = outbox \o LoadErrors(e, 1)
  /\ UNCHANGED <<cachedConfig, transcriberPromise, inbox>>
  /\ UNCHANGED <<hostVars, uploadVars, exportVars>>

RECURSIVE ChunksDelivered(_)
\* The raw chunks delivered so far to the jobs from j on.
ChunksDelivered(j) ==
  IF j > Len(wjobs) THEN 0 ELSE wjobs[j].processed + ChunksDelivered(j + 1)

\* chunk_callback (lines 131-148) on the next raw chunk of job j.
EngineChunk(j) ==
  /\ wjobs[j].pc = "running"
  /\ ChunksDelivered(1) < MaxChunks
  /\ LET k == wjobs[j].processed + 1
     IN  /\ wjobs' = [wjobs EXCEPT ![j].processed = k,
                                   ![j].posted = Append(wjobs[j].posted, "partial")]
         /\ outbox' = Append(outbox,
                             PartialMsg(wjobs[j].jobId, k, wjobs[j].total,
                                        DecodeAsr(wjobs[j].rec, k)))
  /\ UNCHANGED <<cachedConfig, transcriberPromise, engines, inbox>>
  /\ UNCHANGED <<hostVars, uploadVars, exportVars>>

\* chunk_callback throws after its push (in _decode_asr or postMessage):
\* the engine call rejects and the catch block answers.
ChunkCallbackThrows(j) ==
  /\ wjobs[j].pc = "running"
  /\ ChunksDelivered(1) < MaxChunks
  /\ wjobs' = [wjobs EXCEPT ![j] = Failed([wjobs[j] EXCEPT !.processed = @ + 1])]
  /\ outbox' = Append(outbox, ErrorMsg(wjobs[j].jobId, "callback-failed"))
  /\ UNCHANGED <<cachedConfig, transcriberPromise, engines, inbox>>
  /\ UNCHANGED <<hostVars, uploadVars, exportVars>>

\* The engine call of job j resolves (lines 151-156).
EngineReturn(j) ==
  /\ wjobs[j].pc = "running"
  /\ wjobs' = [wjobs EXCEPT ![j].pc = "finished",
                            ![j].posted = wjobs[j].posted
                               \o [i \in 1..Len(ReturnPosts(wjobs[j])) |->
                                     ReturnPosts(wjobs[j])[i].type]]
  /\ outbox' = outbox \o ReturnPosts(wjobs[j])
  /\ UNCHANGED <<cachedConfig, transcriberPromise, engines, inbox>>
  /\ UNCHANGED <<hostVars, uploadVars, exportVars>>

\* The engine call of job j rejects (lines 157-164).
EngineThrows(j) ==
  /\ wjobs[j].pc = "running"
  /\ wjobs' = [wjobs EXCEPT ![j] = Failed(wjobs[j])]
  /\ outbox' = Append(outbox, ErrorMsg(wjobs[j].jobId, "engine-run-failed"))
  /\ UNCHANGED <<cachedConfig, transcriberPromise, engines, inbox>>
  /\ UNCHANGED <<hostVars, uploadVars, exportVars>>

(* --------------------------- specifications --------------------------- *)

IdleUpload == [pc |-> "idle", rec |-> 0, jobId |-> 0]

\* The page after setup: the refs of lines 77-99, no worker yet.
Init ==
  /\ audioBuffer = NoBuffer
  /\ segments = <<>>
  /\ status = StatusOf("")
  /\ isLoading = FALSE
  /\ isExporting = FALSE
  /\ selectAll = TRUE
  /\ showAutoGroupModal = FALSE
  /\ autoGroupMode = "time"
  /\ autoGroupValue = 10000
  /\ activeJobId = 0
  /\ processedChunks = 0
  /\ totalChunks = 0
  /\ isTranscribing = FALSE
  /\ uploads = [u \in Uploads |-> IdleUpload]
  /\ wasmPath = "pending"
  /\ wasmWaiters = <<>>
  /\ exportPc = "idle"
  /\ exGroups = <<>>
  /\ zip = NoZip
  /\ downloads = 0
  /\ statusTimers = 0
  /\ inbox = <<>>
  /\ outbox = <<>>
  /\ cachedConfig = NoConfig
  /\ transcriberPromise = 0
  /\ engines = <<>>
  /\ wjobs = <<>>

\* Uploads, the worker and the host's message handler.
Next ==
  \/ \E u \in Uploads : UploadStart(u, FileOf(u))
  \/ \E u \in Uploads : DecodeFail(u)
  \/ \E u \in Uploads : AttachFail(u)
  \/ \E u \in Uploads : DecodeOk(u)
  \/ \E u \in Uploads : PostFail(u)
  \/ \E path \in WasmPaths, failing \in SUBSET (1..Len(wasmWaiters)) :
       WasmResolve(path, failing)
  \/ WorkerReceive
  \/ \E e \in 1..Len(engines) : EngineLoaded(e)
  \/ \E e \in 1..Len(engines) : EngineLoadFailed(e)
  \/ \E j \in 1..Len(wjobs) : EngineChunk(j)
  \/ \E j \in 1..Len(wjobs) : ChunkCallbackThrows(j)
  \/ \E j \in 1..Len(wjobs) : EngineReturn(j)
  \/ \E j \in 1..Len(wjobs) : EngineThrows(j)
  \/ HostReceive

Spec == Init /\ [][Next]_vars

\* pipeline() settles: the load of some engine instance ends.
EngineLoadSettles ==
  \E e \in 1..Len(engines) : EngineLoaded(e) \/ EngineLoadFailed(e)

\* The engine call of some job returns or throws.
EngineCallSettles ==
  \E j \in 1..Len(wjobs) : EngineReturn(j) \/ EngineThrows(j)

\* A step of what the environment owes the page: a posted message is
\* delivered, in either direction, wasmPathPromise resolves, an engine load
\* or an engine call settles.
Settles ==
  \/ WorkerReceive
  \/ HostReceive
  \/ \E path \in WasmPaths, failing \in SUBSET (1..Len(wasmWaiters)) :
       WasmResolve(path, failing)
  \/ EngineLoadSettles
  \/ EngineCallSettles

\* The same behaviours where such steps keep being taken for as long as
\* one is due: none of them is put off for ever.
SpecLive == Init /\ [][Next]_vars /\ WF_vars(Settles)

\* The messages one job of recording r posts when the engine delivers n raw
\* chunks and returns.
JobLog(jobId, r, n) ==
  [k \in 1..(n + 1) |->
     IF k <= n THEN PartialMsg(jobId, k, TotalFor(r), DecodeAsr(r, k))
     ELSE DoneMsg(jobId, DecodeAsr(r, n))]

\* The worker after it has run one job of recording r over n raw chunks.
WorkerAfterJob(r, n) ==
  /\ cachedConfig = ConfigOf(wasmBases[1])
  /\ transcriberPromise = 1
  /\ engines = <<"ready">>
  /\ wjobs = <<[jobId |-> 1, rec |-> r, config |-> ConfigOf(wasmBases[1]), payload |-> PagePayload(r),
                audio |-> WorkerAudio(PagePayload(r)), pc |-> "finished", engine |-> 1,
                processed |-> n, total |-> TotalFor(r),
                posted |-> [k \in 1..(n + 1) |-> IF k <= n THEN "partial" ELSE "done"]]>>

\* The host after one upload of recording r has posted job 1.
HostAfterUpload(r) ==
  /\ audioBuffer.rec = r
  /\ activeJobId = 1
  /\ uploads = [u \in Uploads |->
                  IF u = 1 THEN [pc |-> "finished", rec |-> r, jobId |-> 1]
                  ELSE IdleUpload]
  /\ wasmPath = wasmBases[1]
  /\ wasmWaiters = <<>>
  /\ inbox = <<>>
  /\ isExporting = FALSE
  /\ showAutoGroupModal = FALSE
  /\ autoGroupMode = "time"
  /\ autoGroupValue = 10000
  /\ exportPc = "idle"
  /\ exGroups = <<>>
  /\ zip = NoZip
  /\ downloads = 0
  /\ statusTimers = 0

\* Editing and export start where the worker has answered job 1, of the
\* first upload, in full and the host has not handled any of its messages
\* yet.
InitStore ==
  \E r \in {FileOf(1)} :
    /\ audioBuffer \in AfterTransfer(DecodedBuffer(r))
    /\ HostAfterUpload(r)
    /\ WorkerAfterJob(r, MaxStoreChunks)
    /\ segments = <<>>
    /\ selectAll = TRUE
    /\ status = StatusOf("analyzing")
    /\ isLoading = TRUE
    /\ isTranscribing = TRUE
    /\ processedChunks = 0
    /\ totalChunks = 0
    /\ outbox = JobLog(1, r, MaxStoreChunks)

\* The host's message handler, the user's edits of the list, and export.
NextStore ==
  \/ HostReceive
  \/ \E index \in 0..(Len(segments) - 1) : toggleLink(index)
  \/ \E index \in 0..(Len(segments) - 1) : toggleSelected(index)
  \/ toggleSelectAll
  \/ ExportStart
  \/ ExportEncodeFail
  \/ ExportFinishOk
  \/ ExportArchiveFail
  \/ StatusTimeout

SpecStore == InitStore /\ [][NextStore]_vars

\* Two overlapping uploads: the host applied the one partial message of job
\* 1, the second upload then posted job 2 and superseded it, job 1's done
\* message was dropped, and job 2, whose engine call delivered no chunk, has
\* posted a done message without chunks that the host has not handled yet.
AfterSupersededJob ==
  /\ audioBuffer = DecodedBuffer(FileOf(2))
  /\ activeJobId = 2
  /\ uploads = [u \in Uploads |->
                  IF u <= 2 THEN [pc |-> "finished", rec |-> FileOf(u), jobId |-> u]
                  ELSE IdleUpload]
  /\ wasmPath = wasmBases[1]
  /\ wasmWaiters = <<>>
  /\ inbox = <<>>
  /\ outbox = <<DoneMsg(2, <<>>)>>
  /\ cachedConfig = ConfigOf(wasmBases[1])
  /\ transcriberPromise = 1
  /\ engines = <<"ready">>
  /\ wjobs = <<[jobId |-> 1, rec |-> FileOf(1), config |-> ConfigOf(wasmBases[1]), payload |-> PagePayload(FileOf(1)),
                audio |-> WorkerAudio(PagePayload(FileOf(1))), pc |-> "finished", engine |-> 1,
                processed |-> 1, total |-> TotalFor(FileOf(1)),
                posted |-> <<"partial", "done">>],
               [jobId |-> 2, rec |-> FileOf(2), config |-> ConfigOf(wasmBases[1]), payload |-> PagePayload(FileOf(2)),
                audio |-> WorkerAudio(PagePayload(FileOf(2))), pc |-> "finished", engine |-> 1,
                processed |-> 0, total |-> TotalFor(FileOf(2)),
                posted |-> <<"done">>]>>
  /\ segments = SegmentsFromChunks(DecodeAsr(FileOf(1), 1), DecodedBuffer(FileOf(1)))
  /\ selectAll = TRUE
  /\ status = StatusOf("analyzing")
  /\ isLoading = TRUE
  /\ isTranscribing = TRUE
  /\ processedChunks = 0
  /\ totalChunks = 0
  /\ isExporting = FALSE
  /\ showAutoGroupModal = FALSE
  /\ autoGroupMode = "time"
  /\ autoGroupValue = 10000
  /\ exportPc = "idle"
  /\ exGroups = <<>>
  /\ zip = NoZip
  /\ downloads = 0
  /\ statusTimers = 0

\* The one upload of recording r has posted job 1, whose engine call
\* delivered n chunks and then rejected: the host has applied the n partial
\* messages and the error message is still in flight.
BeforeErrorEvent(r, n) ==
  /\ audioBuffer \in AfterTransfer(DecodedBuffer(r))
  /\ HostAfterUpload(r)
  /\ cachedConfig = ConfigOf(wasmBases[1])
  /\ transcriberPromise = 1
  /\ engines = <<"ready">>
  /\ wjobs = <<[jobId |-> 1, rec |-> r, config |-> ConfigOf(wasmBases[1]), payload |-> PagePayload(r),
                audio |-> WorkerAudio(PagePayload(r)), pc |-> "finished", engine |-> 1,
                processed |-> n, total |-> TotalFor(r),
                posted |-> [k \in 1..(n + 1) |-> IF k <= n THEN "partial" ELSE "error"]]>>
  /\ segments = SegmentsFromChunks(DecodeAsr(r, n), DecodedBuffer(r))
  /\ selectAll = TRUE
  /\ status = IF n = 0 THEN StatusOf("analyzing") ELSE StatusProgress(n, TotalFor(r))
  /\ isLoading = TRUE
  /\ isTranscribing = TRUE
  /\ processedChunks = n
  /\ totalChunks = IF n = 0 THEN 0 ELSE TotalFor(r)
  /\ outbox = <<ErrorMsg(1, "engine-run-failed")>>

\* The auto-grouper starts where job 1 is done with n segments in the store,
\* where a superseding job is about to empty the store, or where job 1 is
\* about to report a failure.
InitAuto ==
  \/ \E r \in Recordings, n \in 1..MaxAutoSegs :
       /\ audioBuffer \in AfterTransfer(DecodedBuffer(r))
       /\ HostAfterUpload(r)
       /\ WorkerAfterJob(r, n)
       /\ segments = SegmentsFromChunks(DecodeAsr(r, n), DecodedBuffer(r))
       /\ selectAll = TRUE
       /\ status = StatusOf("")
       /\ isLoading = FALSE
       /\ isTranscribing = FALSE
       /\ processedChunks = n
       /\ totalChunks = n
       /\ outbox = <<>>
  \/ AfterSupersededJob
  \/ BeforeErrorEvent(FileOf(1), MaxStoreChunks)

\* The auto-group modal, the select-all checkbox and the messages still in
\* flight.
NextAuto ==
  \/ HostReceive
  \/ openAutoGroupModal
  \/ \E mode \in AutoGroupModes : setAutoGroupMode(mode)
  \/ \E value \in AutoValues : setAutoGroupValue(value)
  \/ cancelAutoGroup
  \/ applyAutoGroup
  \/ toggleSelectAll

SpecAuto == InitAuto /\ [][NextAuto]_vars

\* Engine configurations a client of the worker may post: the one the page
\* posts, and one differing from it in each field ensureTranscriber compares.
WorkerConfigs ==
  {ConfigOf(wasmBases[1]),
   ConfigOf(wasmBases[4]),
   [ConfigOf(wasmBases[1]) EXCEPT !.allowLocalModels = "true"],
   [ConfigOf(wasmBases[1]) EXCEPT !.allowRemoteModels = "false"],
   [ConfigOf(wasmBases[1]) EXCEPT !.useBrowserCache = FALSE],
   [ConfigOf(wasmBases[1]) EXCEPT !.localModelPath = "other/"]}

\* The worker on its own, before its first message, with MaxWorkerJobs
\* transcribe messages posted to it, the first with the page's configuration
\* and the others with any; the page is as after setup and takes no step.
InitWorker ==
  /\ audioBuffer = NoBuffer
  /\ segments = <<>>
  /\ status = StatusOf("")
  /\ isLoading = FALSE
  /\ isExporting = FALSE
  /\ selectAll = TRUE
  /\ showAutoGroupModal = FALSE
  /\ autoGroupMode = "time"
  /\ autoGroupValue = 10000
  /\ activeJobId = 0
  /\ processedChunks = 0
  /\ totalChunks = 0
  /\ isTranscribing = FALSE
  /\ uploads = [u \in Uploads |-> IdleUpload]
  /\ wasmPath = "pending"
  /\ wasmWaiters = <<>>
  /\ exportPc = "idle"
  /\ exGroups = <<>>
  /\ zip = NoZip
  /\ downloads = 0
  /\ statusTimers = 0
  /\ \E cs \in {c \in [1..MaxWorkerJobs -> WorkerConfigs] : c[1] = ConfigOf(wasmBases[1])} :
       inbox = [i \in 1..MaxWorkerJobs |->
                  [type |-> "transcribe", jobId |-> i, rec |-> FileOf(i), config |-> cs[i],
                   payload |-> PagePayload(FileOf(i))]]
  /\ outbox = <<>>
  /\ cachedConfig = NoConfig
  /\ transcriberPromise = 0
  /\ engines = <<>>
  /\ wjobs = <<>>

\* The worker's handler, its engine and the chunk callback.
NextWorker ==
  \/ WorkerReceive
  \/ \E e \in 1..Len(engines) : EngineLoaded(e)
  \/ \E e \in 1..Len(engines) : EngineLoadFailed(e)
  \/ \E j \in 1..Len(wjobs) : EngineChunk(j)
  \/ \E j \in 1..Len(wjobs) : ChunkCallbackThrows(j)
  \/ \E j \in 1..Len(wjobs) : EngineReturn(j)
  \/ \E j \in 1..Len(wjobs) : EngineThrows(j)

SpecWorker == InitWorker /\ [][NextWorker]_vars

\* Audio lengths around the multiples of half a second of samples, where the
\* estimate changes its value.
HalfSecond == TARGET_SAMPLE_RATE \div 2

SampleCounts ==
  {0, 1} \cup {k * HalfSecond + d : k \in 1..MaxHalfSeconds, d \in {-1, 0, 1}}

\* The payloads of a client of the worker: any chunkLength and strideLength,
\* zero and negative ones included, on audio at the engine's rate.
EstimatorPayloads ==
  {[samples |-> <<>>, sampleCount |-> n, sampleRate |-> TARGET_SAMPLE_RATE, chunkLength |-> c,
    strideLength |-> t] :
     n \in SampleCounts, c \in -1..MaxChunkLength, t \in -1..MaxStrideLength}

\* A fresh worker with one transcribe message posted to it; rec is what the
\* engine hears in the audio.
InitEstimator ==
  /\ audioBuffer = NoBuffer
  /\ segments = <<>>
  /\ status = StatusOf("")
  /\ isLoading = FALSE
  /\ isExporting = FALSE
  /\ selectAll = TRUE
  /\ showAutoGroupModal = FALSE
  /\ autoGroupMode = "time"
  /\ autoGroupValue = 10000
  /\ activeJobId = 0
  /\ processedChunks = 0
  /\ totalChunks = 0
  /\ isTranscribing = FALSE
  /\ uploads = [u \in Uploads |-> IdleUpload]
  /\ wasmPath = "pending"
  /\ wasmWaiters = <<>>
  /\ exportPc = "idle"
  /\ exGroups = <<>>
  /\ zip = NoZip
  /\ downloads = 0
  /\ statusTimers = 0
  /\ \E p \in EstimatorPayloads :
       inbox = <<[type |-> "transcribe", jobId |-> 1, rec |-> FileOf(1),
                  config |-> ConfigOf(wasmBases[1]), payload |-> p]>>
  /\ outbox = <<>>
  /\ cachedConfig = NoConfig
  /\ transcriberPromise = 0
  /\ engines = <<>>
  /\ wjobs = <<>>

\* The worker's handler, its engine and the chunk callback.
NextEstimator ==
  \/ WorkerReceive
  \/ \E e \in 1..Len(engines) : EngineLoaded(e)
  \/ \E e \in 1..Len(engines) : EngineLoadFailed(e)
  \/ \E j \in 1..Len(wjobs) : EngineChunk(j)
  \/ \E j \in 1..Len(wjobs) : ChunkCallbackThrows(j)
  \/ \E j \in 1..Len(wjobs) : EngineReturn(j)
  \/ \E j \in 1..Len(wjobs) : EngineThrows(j)

SpecEstimator == InitEstimator /\ [][NextEstimator]_vars

\* Sample values: silence and full scale of either sign, in units of
\* 1 / EngineSamplingRate.
Amplitudes == {0 - EngineSamplingRate, 0, EngineSamplingRate}

RECURSIVE Buffers(_)
\* The Float32Arrays of length n over Amplitudes.
Buffers(n) ==
  IF n = 0 THEN {<<>>}
  ELSE {Append(b, a) : b \in Buffers(n - 1), a \in Amplitudes}

\* The rates of the audio a client posts: below, at and above the engine's.
SourceRates == {8000, 12000, 16000, 24000, 32000, 44100, 48000}

\* The payloads of a client that posts short buffers at any of the rates,
\* the page's chunkLength and strideLength with them.
ResamplerPayloads ==
  {[samples |-> b, sampleCount |-> Len(b), sampleRate |-> rate,
    chunkLength |-> CHUNK_LENGTH_S, strideLength |-> STRIDE_LENGTH_S] :
     b \in UNION {Buffers(n) : n \in 0..MaxSamples}, rate \in SourceRates}

\* A fresh worker with one transcribe message posted to it.
InitResampler ==
  /\ audioBuffer = NoBuffer
  /\ segments = <<>>
  /\ status = StatusOf("")
  /\ isLoading = FALSE
  /\ isExporting = FALSE
  /\ selectAll = TRUE
  /\ showAutoGroupModal = FALSE
  /\ autoGroupMode = "time"
  /\ autoGroupValue = 10000
  /\ activeJobId = 0
  /\ processedChunks = 0
  /\ totalChunks = 0
  /\ isTranscribing = FALSE
  /\ uploads = [u \in Uploads |-> IdleUpload]
  /\ wasmPath = "pending"
  /\ wasmWaiters = <<>>
  /\ exportPc = "idle"
  /\ exGroups = <<>>
  /\ zip = NoZip
  /\ downloads = 0
  /\ statusTimers = 0
  /\ \E p \in ResamplerPayloads :
       inbox = <<[type |-> "transcribe", jobId |-> 1, rec |-> FileOf(1),
                  config |-> ConfigOf(wasmBases[1]), payload |-> p]>>
  /\ outbox = <<>>
  /\ cachedConfig = NoConfig
  /\ transcriberPromise = 0
  /\ engines = <<>>
  /\ wjobs = <<>>

\* The worker's handler, its engine and the chunk callback on the resampled
\* buffer.
NextResampler ==
  \/ WorkerReceive
  \/ \E e \in 1..Len(engines) : EngineLoaded(e)
  \/ \E e \in 1..Len(engines) : EngineLoadFailed(e)
  \/ \E j \in 1..Len(wjobs) : EngineChunk(j)
  \/ \E j \in 1..Len(wjobs) : ChunkCallbackThrows(j)
  \/ \E j \in 1..Len(wjobs) : EngineReturn(j)
  \/ \E j \in 1..Len(wjobs) : EngineThrows(j)

SpecResampler == InitResampler /\ [][NextResampler]_vars

(* ------------------------------- claims ------------------------------- *)

\* The types of the messages in flight to the host that carry jobId.
RECURSIVE InFlightTypes(_, _)
InFlightTypes(q, jobId) ==
  IF Len(q) = 0 THEN <<>>
  ELSE IF Head(q).jobId = jobId
  THEN <<Head(q).type>> \o InFlightTypes(Tail(q), jobId)
  ELSE InFlightTypes(Tail(q), jobId)

IsSuffix(s, t) == Len(s) <= Len(t) /\ SubSeq(t, Len(t) - Len(s) + 1, Len(t)) = s

\* C1 (supersession discard): when the host handles a message whose jobId
\* is below activeJobId, i.e. of a job a newer submission has superseded,
\* segments, processedChunks, totalChunks, status, isLoading and
\* isTranscribing all keep their values.
C1_SupersededDiscard ==
  [][(/\ Len(outbox) > 0
      /\ outbox' = Tail(outbox)
      /\ Head(outbox).jobId < activeJobId)
     => UNCHANGED <<segments, processedChunks, totalChunks, status, isLoading,
                    isTranscribing>>]_vars

\* Job 1 posted a partial after job 2 had superseded it (the store was
\* cleared before job 1 could answer and is still empty), and the host has
\* handled every message of job 1.
C1_Witness ==
  /\ activeJobId = 2
  /\ segments = <<>>
  /\ \E j \in 1..Len(wjobs) :
       /\ wjobs[j].jobId = 1
       /\ Len(wjobs[j].posted) > 0
       /\ wjobs[j].posted[1] = "partial"
  /\ InFlightTypes(outbox, 1) = <<>>

\* C2 (per-job event protocol): what the worker has posted for a job is a
\* run of partial messages, followed, exactly when the handler has ended,
\* by one terminal message (done or error); nothing follows the terminal
\* message, and the messages still in flight for the job are the last ones
\* of that run.
C2_EventProtocol ==
  \A j \in 1..Len(wjobs) :
    LET p == wjobs[j].posted
    IN  /\ \A i \in 1..(Len(p) - 1) : p[i] = "partial"
        /\ wjobs[j].pc = "finished" => Len(p) > 0 /\ p[Len(p)] \in {"done", "error"}
        /\ wjobs[j].pc # "finished" => \A i \in 1..Len(p) : p[i] = "partial"
        /\ IsSuffix(InFlightTypes(outbox, wjobs[j].jobId), p)

\* A job whose chunk callback threw on its second raw chunk: one partial,
\* then the error.
C2_Witness ==
  \E j \in 1..Len(wjobs) :
    /\ wjobs[j].pc = "finished"
    /\ wjobs[j].processed = 2
    /\ wjobs[j].posted = <<"partial", "error">>

\* The ids of the transcribe messages in posting order: those the worker
\* has received, then those in flight.
PostedIds ==
  [j \in 1..Len(wjobs) |-> wjobs[j].jobId] \o [i \in 1..Len(inbox) |-> inbox[i].jobId]

AllocatedUploads == {u \in Uploads : uploads[u].jobId # 0}

\* C3 (job identity): the ids allocated so far are exactly 1..activeJobId,
\* one per submission; the ids posted to the worker are strictly increasing
\* in posting order; and no transcribe message, worker job or event carries
\* an id above activeJobId.
C3_JobIdentity ==
  /\ {uploads[u].jobId : u \in AllocatedUploads} = 1..activeJobId
  /\ Cardinality(AllocatedUploads) = activeJobId
  /\ \A i, k \in 1..Len(PostedIds) : i < k => PostedIds[i] < PostedIds[k]
  /\ \A i \in 1..Len(PostedIds) : PostedIds[i] <= activeJobId
  /\ \A i \in 1..Len(outbox) : outbox[i].jobId <= activeJobId

\* Two overlapping uploads have both posted their jobs.
C3_Witness ==
  /\ Len(inbox) = 2
  /\ activeJobId = 2

RECURSIVE SplitFrom(_, _, _, _)
SplitFrom(s, sep, i, cur) ==
  IF i > Len(s) THEN <<cur>>
  ELSE IF s[i] = sep THEN <<cur>> \o SplitFrom(s, sep, i + 1, <<>>)
  ELSE SplitFrom(s, sep, i + 1, Append(cur, s[i]))

\* The lines of a text file: none for an empty file, else the pieces between
\* line feeds.
Lines(s) == IF Len(s) = 0 THEN <<>> ELSE SplitFrom(s, "\n", 1, <<>>)

RECURSIVE Flatten(_)
Flatten(groups) ==
  IF Len(groups) = 0 THEN <<>> ELSE Head(groups) \o Flatten(Tail(groups))

RECURSIVE SelectedOf(_)
SelectedOf(segs) ==
  IF Len(segs) = 0 THEN <<>>
  ELSE IF Head(segs).selected THEN <<Head(segs)>> \o SelectedOf(Tail(segs))
  ELSE SelectedOf(Tail(segs))

\* The index of the group that holds the segment with this id.
GroupOf(groups, id) ==
  CHOOSE g \in 1..Len(groups) : \E m \in 1..Len(groups[g]) : groups[g][m].id = id

\* C4 (group derivation): the groups buildGroups materializes from the
\* store are non-empty, hold exactly the selected segments, each once and in
\* segment order, and two selected segments i < j share a group exactly when
\* every segment from i up to j - 1 has linkNext = true.
C4_GroupsPartition ==
  LET groups == buildGroups(segments)
  IN  /\ \A g \in 1..Len(groups) : Len(groups[g]) > 0
      /\ Flatten(groups) = SelectedOf(segments)
      /\ \A i, j \in 1..Len(segments) :
           (i < j /\ segments[i].selected /\ segments[j].selected)
           => ((GroupOf(groups, i) = GroupOf(groups, j))
               <=> (\A k \in i..(j - 1) : segments[k].linkNext))

\* An export has derived groups from a store of three segments whose
\* unselected middle one breaks the chain: two groups of one member.
C4_Witness ==
  /\ exportPc = "generating"
  /\ exGroups = buildGroups(segments)
  /\ Len(segments) = 3
  /\ segments[1].linkNext /\ ~segments[2].linkNext
  /\ segments[1].selected /\ ~segments[2].selected /\ segments[3].selected
  /\ Len(exGroups) = 2

Contains(text, part) ==
  \E i \in 1..(Len(text) - Len(part) + 1) : SubSeq(text, i, i + Len(part) - 1) = part

\* Two half-open index ranges share no index.
Disjoint(a, b, c, d) == a >= b \/ c >= d \/ b <= c \/ d <= a

\* C5 (unselected segment in the middle of a chain): in the archive built
\* from the present store, the text of a group omits the text of every
\* unselected segment lying between the group's first and last member, and
\* the group's audio clip holds no sample of that segment's [start, end).
C5_UnselectedSkipped ==
  (exportPc = "generating" /\ exGroups = buildGroups(segments))
  => \A g \in 1..Len(exGroups), u \in 1..Len(segments) :
       (/\ ~segments[u].selected
        /\ exGroups[g][1].id < u
        /\ u < exGroups[g][Len(exGroups[g])].id)
       => /\ ~Contains(zip.player[g].text, segments[u].text)
          /\ Disjoint(zip.audio[g].clip.range.from, zip.audio[g].clip.range.to,
                      SampleIndex(segments[u].start, audioBuffer.sampleRate),
                      SampleIndex(segments[u].end, audioBuffer.sampleRate))

RECURSIVE SpaceJoined(_)
\* The texts of a group's members in order, one blank between neighbours.
SpaceJoined(group) ==
  IF Len(group) = 1 THEN group[1].text
  ELSE SpaceJoined(SubSeq(group, 1, Len(group) - 1)) \o <<" ">> \o group[Len(group)].text

\* C6 (export correspondence): the archive of an export over k groups holds
\* k audio files, a transcript of k lines and k player entries; the i-th
\* file is named <i>-<start>-<end>.mp3 after the i-th group, the i-th line
\* is that name, a tab and the group's space-joined text, the i-th entry is
\* audio/<name> with the same text, and the file names are pairwise
\* distinct.
C6_ExportCorrespondence ==
  exportPc \in {"generating", "done"}
  => LET k == Len(exGroups)
         lines == Lines(zip.txt)
     IN  /\ Len(zip.audio) = k
         /\ Len(lines) = k
         /\ Len(zip.player) = k
         /\ \A i \in 1..k :
              LET g == exGroups[i]
                  name == Digits(i) \o <<"-">> \o toFixed2(g[1].start) \o <<"-">>
                            \o toFixed2(g[Len(g)].end) \o <<".", "m", "p", "3">>
              IN  /\ zip.audio[i].name = name
                  /\ lines[i] = name \o <<"\t">> \o SpaceJoined(g)
                  /\ zip.player[i].file = <<"a", "u", "d", "i", "o", "/">> \o name
                  /\ zip.player[i].text = SpaceJoined(g)
         /\ \A i, j \in 1..k : i # j => zip.audio[i].name # zip.audio[j].name

\* A download of two groups, the first of two members.
C6_Witness ==
  /\ exportPc = "done"
  /\ downloads = 1
  /\ Len(exGroups) = 2
  /\ Len(exGroups[1]) = 2

\* C7 (export failure is atomic): when the encoder or the archive
\* generation fails, or cutting a clip raises, no download is triggered, the segment store and the
\* audio buffer keep their values and isExporting is false afterwards;
\* isExporting is false after a successful export too.
C7_ExportFailureAtomic ==
  [][/\ (ExportEncodeFail \/ ExportArchiveFail \/ (ExportStart /\ exportPc' = "failed"))
        => /\ downloads' = downloads
           /\ segments' = segments
           /\ audioBuffer' = audioBuffer
           /\ ~isExporting'
     /\ ExportFinishOk => ~isExporting']_vars

\* An export of a non-empty group list has failed with nothing downloaded.
C7_Witness ==
  /\ exportPc = "failed"
  /\ status = StatusOf("export-failed")
  /\ downloads = 0
  /\ ~isExporting
  /\ Len(buildGroups(segments)) > 0

\* C8 (events during an export): while an archive is being generated and
\* once it is downloaded, its audio files, transcript and player entries
\* are those of one group list, the one derived when the export started,
\* whatever the host has done to the store since.
C8_ExportSnapshot ==
  exportPc \in {"generating", "done"} => zip = BuildZip(exGroups, audioBuffer)

\* An archive is being generated and a message has replaced the store since
\* the export started: the first segment's end is no longer the one captured.
C8_Witness ==
  /\ exportPc = "generating"
  /\ Len(exGroups) > 0
  /\ exGroups[1][1].id = 1
  /\ exGroups[1][1].end # segments[1].end

\* The sizes of the groups, in order.
GroupSizes(groups) == [g \in 1..Len(groups) |-> Len(groups[g])]

\* The 0-based indices of the segments whose linkNext is set.
LinkedAt(segs) == {i \in 0..(Len(segs) - 1) : segs[i + 1].linkNext}

\* C9 (count mode): applyAutoGroup in count mode with a whole number
\* N >= 1 of members on n >= 1 segments leaves the segment at 0-based index
\* i linked if and only if (i+1) mod N # 0 and i is not the last index;
\* every group of the store then has exactly N members, except the last,
\* which has between 1 and N.  The parameter is held in thousandths.
C9_CountMode ==
  [][(/\ applyAutoGroup
      /\ autoGroupMode = "count"
      /\ autoGroupValue >= 1000
      /\ autoGroupValue % 1000 = 0
      /\ Len(segments) >= 1)
     => LET n == Len(segments)
            N == autoGroupValue \div 1000
            sizes == GroupSizes(buildGroups(segments'))
        IN  /\ Len(segments') = n
            /\ ~showAutoGroupModal'
            /\ \A i \in 0..(n - 1) :
                 segments'[i + 1].linkNext <=> ((i + 1) % N # 0 /\ i # n - 1)
            /\ Len(sizes) >= 1
            /\ \A g \in 1..(Len(sizes) - 1) : sizes[g] = N
            /\ sizes[Len(sizes)] \in 1..N]_vars

\* Count mode with N = 3 has been applied to 7 segments: links at {0,1,3,4},
\* group sizes [3,3,1].
C9_Witness ==
  /\ ~showAutoGroupModal
  /\ autoGroupMode = "count"
  /\ autoGroupValue = 3000
  /\ Len(segments) = 7
  /\ LinkedAt(segments) = {0, 1, 3, 4}
  /\ GroupSizes(buildGroups(segments)) = <<3, 3, 1>>

\* C10 (total-groups mode): applyAutoGroup in total mode with a whole number
\* G in 1..n on n >= 1 segments leaves exactly G groups whose sizes, in
\* order, are floor(n/G)+1 for the first n mod G groups and floor(n/G) for
\* the rest; every member of a group but its last is linked, the last member
\* of a group is not, and so the very last segment is not linked.
C10_TotalMode ==
  [][(/\ applyAutoGroup
      /\ autoGroupMode = "total"
      /\ Len(segments) >= 1
      /\ autoGroupValue % 1000 = 0
      /\ (autoGroupValue \div 1000) \in 1..Len(segments))
     => LET n == Len(segments)
            G == autoGroupValue \div 1000
            base == n \div G
            groups == buildGroups(segments')
        IN  /\ Len(segments') = n
            /\ ~showAutoGroupModal'
            /\ Len(groups) = G
            /\ \A g \in 1..G :
                 /\ Len(groups[g]) = (IF g <= n % G THEN base + 1 ELSE base)
                 /\ \A m \in 1..Len(groups[g]) :
                      groups[g][m].linkNext <=> m < Len(groups[g])
            /\ ~segments'[n].linkNext]_vars

\* Total mode with G = 3 has been applied to 7 segments: group sizes
\* [3,2,2], links at {0,1,3,5}.
C10_Witness ==
  /\ ~showAutoGroupModal
  /\ autoGroupMode = "total"
  /\ autoGroupValue = 3000
  /\ Len(segments) = 7
  /\ GroupSizes(buildGroups(segments)) = <<3, 2, 2>>
  /\ LinkedAt(segments) = {0, 1, 3, 5}

RECURSIVE AccAfter(_, _, _)
\* The accumulator of a left-to-right scan after the segment at 1-based
\* position i has been added: the sum of (end - start) since the last
\* segment at which the sum reached the limit T, as the Number the sum of
\* the Numbers is.
AccAfter(segs, i, T) ==
  LET before == IF i = 1 THEN NumberOfInt(0)
                ELSE LET p == AccAfter(segs, i - 1, T)
                     IN  IF NumberLess(p, T) THEN p ELSE NumberOfInt(0)
  IN  NumberAdd(before,
                NumberSub(NumberOfMilli(segs[i].end), NumberOfMilli(segs[i].start)))

\* What time mode leaves for the limit T: a segment is linked exactly when
\* it is not the last and the accumulator, after it is added, is below T.
TimeModeLinks(before, after, T) ==
  /\ Len(after) = Len(before)
  /\ \A i \in 1..Len(before) :
       after[i].linkNext
         <=> (i < Len(before) /\ NumberLess(AccAfter(before, i, T), T))

\* C11 (time mode), as claimed: applyAutoGroup in time mode with a positive
\* parameter T (seconds) leaves a non-last segment linked exactly when the
\* accumulator of (end - start), after that segment is added, is below T;
\* the accumulator restarts from 0 after a segment at which it reached T,
\* and that segment stays unlinked; the last segment is never linked.
C11_TimeModeAnyPositive ==
  [][(/\ applyAutoGroup
      /\ autoGroupMode = "time"
      /\ autoGroupValue > 0
      /\ Len(segments) >= 1)
     => TimeModeLinks(segments, segments', NumberOfMilli(autoGroupValue))]_vars

\* C11 (time mode), amended: the same with the limit max(1, T) in place of
\* T, for every parameter: applyAutoGroup in time mode leaves a non-last
\* segment linked exactly when the accumulator of (end - start), after that
\* segment is added, is below max(1, T); the accumulator restarts from 0
\* after a segment at which it reached that limit, and the last segment is
\* never linked.
C11_TimeMode ==
  [][(/\ applyAutoGroup
      /\ autoGroupMode = "time"
      /\ Len(segments) >= 1)
     => /\ ~showAutoGroupModal'
        /\ TimeModeLinks(segments, segments',
                         NumberOfMilli(Max(1000, autoGroupValue)))]_vars

\* Time mode with T = 1.5 s has been applied to 7 segments of 0.704 s each:
\* every third segment brings the sum past T and stays unlinked.
C11_Witness ==
  /\ ~showAutoGroupModal
  /\ autoGroupMode = "time"
  /\ autoGroupValue = 1500
  /\ Len(segments) = 7
  /\ segments[1].end - segments[1].start = 704
  /\ LinkedAt(segments) = {0, 1, 3, 4}

\* A segment list with its flags erased: every segment selected, none linked.
Unflagged(segs) ==
  [i \in 1..Len(segs) |-> [segs[i] EXCEPT !.selected = TRUE, !.linkNext = FALSE]]

\* C12 (auto-group resets first): the list applyAutoGroup leaves is the one
\* it would leave on the same segments with every flag erased, so it depends
\* on the mode, the parameter and the segment times only; every segment ends
\* selected and selectAll is set; applying the same mode and parameter to the
\* result changes nothing.
C12_AutoGroupResets ==
  [][(applyAutoGroup /\ Len(segments) >= 1)
     => /\ segments' = AutoGrouped(Unflagged(segments), autoGroupMode, autoGroupValue)
        /\ \A i \in 1..Len(segments') : segments'[i].selected
        /\ selectAll'
        /\ AutoGrouped(segments', autoGroupMode, autoGroupValue) = segments']_vars

\* Count mode with N = 2 has been applied to 5 segments: all are selected
\* and the links are at {0,2}.
C12_Witness ==
  /\ ~showAutoGroupModal
  /\ autoGroupMode = "count"
  /\ autoGroupValue = 2000
  /\ Len(segments) = 5
  /\ selectAll
  /\ \A i \in 1..5 : segments[i].selected
  /\ LinkedAt(segments) = {0, 2}

\* Whether the parameter, in thousandths, is one of the edge cases for a
\* list of n segments: below 1, or above n in total mode.
IsEdgeValue(mode, value, n) ==
  \/ mode \in {"count", "total"} /\ value < 1000
  \/ mode = "total" /\ value > 1000 * n

\* C13 (auto-group edge cases): on an empty list applyAutoGroup changes
\* neither the list nor selectAll; in count mode a parameter below 1 acts as
\* 1 (no link, every segment a group of its own); in total mode a parameter
\* below 1 acts as 1 (one group of all segments) and a parameter above the
\* segment count acts as the segment count (every segment a group of its
\* own); in none of these cases does applyAutoGroup raise, it closes the
\* modal.
C13_AutoGroupEdgeCases ==
  [][applyAutoGroup
     => LET n == Len(segments)
            sizes == GroupSizes(buildGroups(segments'))
        IN  /\ n = 0 => (segments' = segments /\ selectAll' = selectAll)
            /\ (n >= 1 /\ IsEdgeValue(autoGroupMode, autoGroupValue, n))
               => /\ ~AutoGroupThrows(segments, autoGroupMode, autoGroupValue)
                  /\ ~showAutoGroupModal'
            /\ (n >= 1 /\ autoGroupMode = "count" /\ autoGroupValue < 1000)
               => /\ segments' = AutoGrouped(segments, "count", 1000)
                  /\ LinkedAt(segments') = {}
                  /\ sizes = [g \in 1..n |-> 1]
            /\ (n >= 1 /\ autoGroupMode = "total" /\ autoGroupValue < 1000)
               => /\ segments' = AutoGrouped(segments, "total", 1000)
                  /\ LinkedAt(segments') = 0..(n - 2)
                  /\ sizes = <<n>>
            /\ (n >= 1 /\ autoGroupMode = "total" /\ autoGroupValue > 1000 * n)
               => /\ segments' = AutoGrouped(segments, "total", 1000 * n)
                  /\ LinkedAt(segments') = {}
                  /\ sizes = [g \in 1..n |-> 1]]_vars

\* Total mode with the parameter 0 has been applied to 4 segments: one
\* group of all four.
C13_Witness ==
  /\ ~showAutoGroupModal
  /\ autoGroupMode = "total"
  /\ autoGroupValue = 0
  /\ Len(segments) = 4
  /\ GroupSizes(buildGroups(segments)) = <<4>>

\* The modal is open over a store that a done message without chunks has
\* emptied: the confirm button meets an empty list.
C13_WitnessEmpty ==
  /\ showAutoGroupModal
  /\ Len(segments) = 0
  /\ activeJobId = 2

\* C14 (error event of the active job): handling an error message that
\* carries activeJobId leaves the segment list, with its selected and
\* linkNext flags, and selectAll as they were, sets isLoading and
\* isTranscribing to false and puts the error's message in the status.
C14_ErrorKeepsSegments ==
  [][(/\ HostReceive
      /\ Head(outbox).type = "error"
      /\ Head(outbox).jobId = activeJobId)
     => /\ segments' = segments
        /\ selectAll' = selectAll
        /\ ~isLoading'
        /\ ~isTranscribing'
        /\ status' = StatusOf(Head(outbox).message)]_vars

\* The error of job 1 has been handled over a store the auto-grouper had
\* linked and the select-all checkbox had deselected.
C14_Witness ==
  /\ status = StatusOf("engine-run-failed")
  /\ ~isLoading
  /\ ~isTranscribing
  /\ outbox = <<>>
  /\ Len(segments) = MaxStoreChunks
  /\ LinkedAt(segments) # {}
  /\ \A i \in 1..Len(segments) : ~segments[i].selected

\* C15 (decode failure): when reading or decoding the file of an upload
\* fails, no transcribe message is posted or left waiting to be posted, the
\* upload ends without a job id, activeJobId keeps its value, and isLoading
\* and isTranscribing are false when the handler has ended.
C15_DecodeFailureAborts ==
  [][\A u \in Uploads :
       DecodeFail(u)
       => /\ inbox' = inbox
          /\ wasmWaiters' = wasmWaiters
          /\ activeJobId' = activeJobId
          /\ uploads'[u].pc = "finished"
          /\ uploads'[u].jobId = 0
          /\ ~isLoading'
          /\ ~isTranscribing']_vars

\* The second upload failed to decode while job 1 of the first was active:
\* one transcribe message was posted in all and job 1 is still the active
\* one.
C15_Witness ==
  /\ uploads[1].jobId = 1
  /\ uploads[2].pc = "finished"
  /\ uploads[2].jobId = 0
  /\ activeJobId = 1
  /\ Len(PostedIds) = 1
  /\ status = StatusOf("upload-failed")
  /\ ~isLoading
  /\ ~isTranscribing

\* The messages of the errors the engine may throw while loading or running.
EngineErrors == {"engine-load-failed", "engine-run-failed", "callback-failed"}

\* C16 (failures carry their message): when the error event of a failed
\* engine load or run of the active job is handled, and when an export fails
\* in the encoder or in the archive generation, the status shown afterwards
\* holds the message of the underlying error.
C16_FailuresReported ==
  [][/\ (/\ HostReceive
         /\ Head(outbox).type = "error"
         /\ Head(outbox).jobId = activeJobId)
        => /\ Head(outbox).message \in EngineErrors
           /\ status'.msg = Head(outbox).message
     /\ (ExportEncodeFail \/ ExportArchiveFail)
        => status'.msg \in CodecErrors]_vars

\* C17 (wholesale replacement): when a partial or done message of the active
\* job is handled, the store afterwards holds one segment per chunk of the
\* message, in the chunks' order, the segment at 1-based position p having
\* id p and the start of the p-th chunk, every segment selected and none
\* linked, and selectAll is set, whatever flags the store held before.
C17_WholesaleReplacement ==
  [][(/\ HostReceive
      /\ Head(outbox).type \in {"partial", "done"}
      /\ Head(outbox).jobId = activeJobId)
     => LET chunks == Head(outbox).chunks
        IN  /\ Len(segments') = Len(chunks)
            /\ \A p \in 1..Len(chunks) :
                 /\ segments'[p].id = p
                 /\ segments'[p].start = chunks[p].start
                 /\ segments'[p].selected
                 /\ ~segments'[p].linkNext
            /\ selectAll']_vars

\* An export under way captured a group of two linked segments; a later
\* message has since replaced the store (the end of segment 2 is another
\* one), where no segment is linked and all are selected.
C17_Witness ==
  /\ exportPc = "generating"
  /\ Len(exGroups) > 0
  /\ Len(exGroups[1]) = 2
  /\ exGroups[1][2].id = 2
  /\ exGroups[1][2].end # segments[2].end
  /\ Len(segments) = MaxStoreChunks
  /\ LinkedAt(segments) = {}
  /\ \A i \in 1..Len(segments) : segments[i].selected
  /\ selectAll

\* The number of partial messages in a job's posted log.
PartialCount(posted) == Cardinality({i \in 1..Len(posted) : posted[i] = "partial"})

\* C18 (cumulative, per-job partial decoding): the k-th partial message a
\* job posts carries that job's id, processed = k, the total estimated for
\* that job's recording, and the phrases decoded from the first k chunks of
\* that job's recording, in order; the step touches no other job, so the
\* chunks of jobs interleaved in the worker are neither mixed nor counted
\* together.
C18_CumulativePartials ==
  [][\A j \in 1..Len(wjobs) :
       EngineChunk(j)
       => LET m == outbox'[Len(outbox')]
              k == PartialCount(wjobs[j].posted) + 1
          IN  /\ Len(outbox') = Len(outbox) + 1
              /\ m.type = "partial"
              /\ m.jobId = wjobs[j].jobId
              /\ m.processed = k
              /\ m.total = TotalFor(wjobs[j].rec)
              /\ Len(m.chunks) = k
              /\ m.chunks = DecodeAsr(wjobs[j].rec, k)
              /\ \A i \in 1..Len(wjobs) : i # j => wjobs'[i] = wjobs[i]]_vars

\* Two jobs interleaved in the worker have each posted their first partial
\* message.
C18_Witness ==
  /\ Len(wjobs) = 2
  /\ wjobs[1].rec # wjobs[2].rec
  /\ wjobs[1].posted = <<"partial">>
  /\ wjobs[2].posted = <<"partial">>
  /\ wjobs[1].processed = 1
  /\ wjobs[2].processed = 1

\* The fields of an engine configuration.
ConfigFields ==
  {"wasmPath", "allowLocalModels", "allowRemoteModels", "useBrowserCache", "localModelPath"}

\* The configuration of the most recent initialization: that of the first
\* job to use the newest engine instance.
LastInitConfig ==
  LET e == Len(engines)
      j == CHOOSE k \in 1..Len(wjobs) :
             /\ wjobs[k].engine = e
             /\ \A i \in 1..(k - 1) : wjobs[i].engine # e
  IN  wjobs[j].config

\* C19 (adapter caching): when the worker takes a transcribe message, a new
\* engine instance is created if and only if no instance exists yet or some
\* field of the message's configuration differs from the configuration of
\* the most recent initialization; the new job then uses the new instance,
\* and otherwise it uses the newest existing instance, which is left as it
\* is; earlier instances are never touched.
C19_AdapterCaching ==
  [][WorkerReceive
     => LET m == Head(inbox)
            job == wjobs'[Len(wjobs')]
            differs == \E f \in ConfigFields : m.config[f] # LastInitConfig[f]
        IN  /\ Len(wjobs') = Len(wjobs) + 1
            /\ job.jobId = m.jobId
            /\ IF Len(engines) = 0 \/ differs
               THEN /\ Len(engines') = Len(engines) + 1
                    /\ SubSeq(engines', 1, Len(engines)) = engines
                    /\ job.engine = Len(engines')
               ELSE /\ engines' = engines
                    /\ job.engine = Len(engines)]_vars

\* Three jobs: the second changed the configuration and got a second engine
\* instance, the third came with the second's configuration and reuses it,
\* after the first job's engine call had delivered a chunk.
C19_Witness ==
  /\ Len(wjobs) = 3
  /\ wjobs[1].processed > 0
  /\ Len(engines) = 2
  /\ wjobs[1].engine = 1
  /\ wjobs[2].engine = 2
  /\ wjobs[3].engine = 2
  /\ wjobs[2].config # wjobs[1].config
  /\ wjobs[3].config = wjobs[2].config

\* Negative audio lengths as well, for the estimate taken as a function.
AllSampleCounts == SampleCounts \cup {0 - n : n \in SampleCounts}

\* C20: the estimate of every job whose engine loaded is at least 1 (and
\* computing it never divides by zero), is 1 when the audio is no longer than
\* the window, and, with the job's rate, chunkLength and strideLength, is
\* non-decreasing in the sample count, negative counts included.
C20_ChunkEstimator ==
  \A j \in 1..Len(wjobs) :
    (wjobs[j].pc # "loading" /\ engines[wjobs[j].engine] = "ready") =>
      LET p == wjobs[j].payload
          est(n) == estimateChunkTotal(n, p.sampleRate, p.chunkLength, p.strideLength)
      IN  /\ wjobs[j].total = est(p.sampleCount)
          /\ \A n \in AllSampleCounts :
                /\ est(n) >= 1
                /\ n <= p.sampleRate * p.chunkLength => est(n) = 1
                /\ \A m \in AllSampleCounts : n <= m => est(n) <= est(m)

\* A job on audio one sample longer than its window, in the fallback of a
\* stride that leaves no jump: its estimate is 2.
C20_Witness ==
  \E j \in 1..Len(wjobs) :
    /\ wjobs[j].pc = "running"
    /\ wjobs[j].payload.chunkLength = 2
    /\ wjobs[j].payload.strideLength = 1
    /\ wjobs[j].payload.sampleCount = 2 * TARGET_SAMPLE_RATE + 1
    /\ wjobs[j].total = 2

\* C21 (segment time bounds): when a partial or done message of the active
\* job is handled, whose chunks start within the audio and end, where the
\* engine gave an end, no earlier than they start, then a segment whose chunk
\* has no end gets the duration of the audio buffer held as its end, a
\* segment whose chunk has an end gets that end, and every stored segment
\* ends no earlier than it starts.
C21_SegmentTimeBounds ==
  [][(/\ HostReceive
      /\ Head(outbox).type \in {"partial", "done"}
      /\ Head(outbox).jobId = activeJobId
      /\ \A p \in 1..Len(Head(outbox).chunks) :
           LET c == Head(outbox).chunks[p]
           IN  /\ c.start <= audioBuffer.duration
               /\ Len(c.end) > 0 => c.end[1] >= c.start)
     => LET chunks == Head(outbox).chunks
        IN  /\ Len(segments') = Len(chunks)
            /\ \A p \in 1..Len(chunks) :
                 /\ Len(chunks[p].end) = 0 => segments'[p].end = audioBuffer'.duration
                 /\ Len(chunks[p].end) > 0 => segments'[p].end = chunks[p].end[1]
                 /\ segments'[p].end >= segments'[p].start]_vars

\* The store holds MaxChunks segments of the recording whose last phrase the
\* engine leaves open: the last one ends with the audio, the one before it
\* where the engine said.
C21_Witness ==
  /\ audioBuffer.rec = 2
  /\ Len(segments) = MaxChunks
  /\ segments[Len(segments)].end = audioBuffer.duration
  /\ segments[Len(segments)].start > 0
  /\ \A p \in 1..(Len(segments) - 1) : segments[p].end < audioBuffer.duration

\* n * targetRate / sourceRate rounded to the nearest integer, halves up,
\* and at least 1: the L >= 1 with 2L - 1 <= 2x < 2L + 1, or 1 below that.
IsRoundedLength(L, n, sourceRate, targetRate) ==
  \/ /\ L = 1
     /\ 2 * n * targetRate < 3 * sourceRate
  \/ /\ L >= 1
     /\ (2 * L - 1) * sourceRate <= 2 * n * targetRate
     /\ 2 * n * targetRate < (2 * L + 1) * sourceRate

\* C22 (resampler): for the buffer of every job whose engine loaded,
\* resampling at the buffer's own rate or at the engine's rate returns the
\* input; at another rate the audio given to the engine is the resampled
\* buffer, as long as the rounded length prescribes, its first sample is the
\* input's first, and for a non-empty input both input indices read for each
\* output position, floor(i * sourceRate / targetRate) and its clamped
\* successor, are within the input.  The page's resampling of its recordings
\* has the prescribed length too (their rates taken in units of 100 Hz).
C22_Resampler ==
  /\ \A r \in Recordings :
       IF DecodedBuffer(r).sampleRate = TARGET_SAMPLE_RATE
       THEN WorkerSampleCount(r) = BufferLength(DecodedBuffer(r))
       ELSE IsRoundedLength(WorkerSampleCount(r), BufferLength(DecodedBuffer(r)),
                            DecodedBuffer(r).sampleRate \div 100,
                            TARGET_SAMPLE_RATE \div 100)
  /\ \A j \in 1..Len(wjobs) :
       (wjobs[j].pc # "loading" /\ engines[wjobs[j].engine] = "ready") =>
         LET input == wjobs[j].payload.samples
             sourceRate == wjobs[j].payload.sampleRate
             targetRate == EngineSamplingRate
             output == wjobs[j].audio.samples
             n == Len(input)
         IN  /\ resampleToRate(input, sourceRate, sourceRate) = input
             /\ resampleToRate(input, targetRate, targetRate) = input
             /\ output = resampleToRate(input, sourceRate, targetRate)
             /\ wjobs[j].audio.sampleCount = Len(output)
             /\ sourceRate # targetRate =>
                  /\ IsRoundedLength(Len(output), n, sourceRate, targetRate)
                  /\ n > 0 =>
                       /\ \A i \in 0..(Len(output) - 1) :
                            /\ ReadIndex(i, sourceRate, targetRate) \in 0..(n - 1)
                            /\ ReadNext(i, n, sourceRate, targetRate) \in 0..(n - 1)
                            /\ ReadIndex(i, sourceRate, targetRate) * targetRate
                                 <= i * sourceRate
                            /\ i * sourceRate
                                 < (ReadIndex(i, sourceRate, targetRate) + 1) * targetRate
                       /\ output[1] = input[1]

\* A running job whose two samples at 12000 Hz, silence then full scale,
\* became three: silence, three quarters of full scale between the two, and
\* full scale; the engine has delivered a chunk of them.
C22_Witness ==
  \E j \in 1..Len(wjobs) :
    /\ wjobs[j].pc = "running"
    /\ wjobs[j].processed > 0
    /\ wjobs[j].payload.sampleRate = 12000
    /\ wjobs[j].payload.samples = <<0, EngineSamplingRate>>
    /\ wjobs[j].audio.samples = <<0, 3 * (EngineSamplingRate \div 4), EngineSamplingRate>>

\* C23 (store/audio consistency): whenever the store is not empty, it holds
\* the phrases the engine decodes from the recording held in audioBuffer,
\* the recording of the job activeJobId names, with their ends resolved
\* against that buffer.
C23_StoreMatchesAudio ==
  Len(segments) > 0 =>
    /\ \E u \in Uploads :
         /\ uploads[u].jobId = activeJobId
         /\ uploads[u].rec = audioBuffer.rec
    /\ segments = SegmentsFromChunks(DecodeAsr(audioBuffer.rec, Len(segments)),
                                     audioBuffer)

\* C24 (decoded audio read-only): no upload that has posted its job
\* transferred the ArrayBuffer of its decoded buffer's channel data, and the
\* channel data of the buffer held for playback and export is not detached.
C24_DecodedAudioReadOnly ==
  /\ ~audioBuffer.detached
  /\ \A u \in Uploads :
       (uploads[u].pc = "finished" /\ uploads[u].jobId > 0) =>
         ~TransfersChannelData(DecodedBuffer(uploads[u].rec))

\* C25 (resubmission retries the engine): when the worker receives a job
\* whose configuration is the cached one and the engine instance created for
\* that configuration has failed to load, it creates a new instance, which
\* is loading, and the job awaits it without an error being posted.
C25_ResubmissionRetries ==
  [][(/\ WorkerReceive
      /\ transcriberPromise # 0
      /\ ~needsRefresh(Head(inbox).config)
      /\ engines[transcriberPromise] = "failed")
     => /\ Len(engines') = Len(engines) + 1
        /\ engines'[Len(engines')] = "loading"
        /\ wjobs'[Len(wjobs')].pc = "loading"
        /\ outbox' = outbox]_vars

\* The job activeJobId names has been posted to the worker: its transcribe
\* message is in flight or the worker has received it.
ActivePosted ==
  /\ activeJobId > 0
  /\ \/ \E i \in 1..Len(inbox) : inbox[i].jobId = activeJobId
     \/ \E j \in 1..Len(wjobs) : wjobs[j].jobId = activeJobId

\* The submission that took activeJobId has ended without posting its
\* message: postMessage threw.
ActivePostThrew ==
  /\ ~ActivePosted
  /\ \E u \in Uploads : /\ uploads[u].jobId = activeJobId
                        /\ uploads[u].jobId > 0
                        /\ uploads[u].pc = "finished"

\* The host has handled the done or error message of the job activeJobId
\* names: the worker has finished the job and none of its messages is in
\* flight.
ActiveHandled ==
  /\ \E j \in 1..Len(wjobs) : /\ wjobs[j].jobId = activeJobId
                               /\ wjobs[j].pc = "finished"
  /\ \A i \in 1..Len(outbox) : outbox[i].jobId # activeJobId

\* C26 (progress indicator): whenever the active job has been posted and
\* its done or error message has not been handled yet, isTranscribing is
\* true.
C26_ProgressIndicator ==
  (ActivePosted /\ ~ActiveHandled) => isTranscribing

\* The job activeJobId names is over for the page: its done or error
\* message has been handled and both progress flags are down.
ActiveCompleted ==
  /\ ActivePosted
  /\ ActiveHandled
  /\ ~isLoading
  /\ ~isTranscribing

\* C27 (eventual completion): once a job has been posted as the active one,
\* the host eventually has handled the done or error message of the job
\* that is active by then, the last one submitted, with isLoading and
\* isTranscribing false; and from then on it stays so for as long as
\* activeJobId keeps its value.  Where the last submission could not hand
\* its message over, postMessage having thrown, no message of it is there
\* to deliver, and both flags are false all the same.
C27_EventualCompletion ==
  /\ ActivePosted
       ~> (ActiveCompleted \/ (ActivePostThrew /\ ~isLoading /\ ~isTranscribing))
  /\ [][(ActiveCompleted /\ activeJobId' = activeJobId) => ActiveCompleted']_vars

\* The second of two overlapping submissions has completed: job 2 is the
\* active one, its last message has been handled, the flags are down.
C27_Witness ==
  /\ activeJobId = 2
  /\ ActiveCompleted
  /\ \A u \in Uploads : uploads[u].pc \in {"idle", "finished"}

\* C28 (displayed group count): the groupCount shown above the list is the
\* number of groups buildGroups yields for the store, the number of audio
\* files an export started now would write.
C28_GroupCountMatchesExport ==
  /\ groupCountOf(segments) = Len(buildGroups(segments))
  /\ groupCountOf(segments) = Len(AudioFiles(FileNames(buildGroups(segments)), buildGroups(segments), audioBuffer))

====
